---------------------------- MODULE Spec2Model ----------------------------
(***************************************************************************)
(* Resource-planning core of Joygrip/matkat-test: period locking, actual   *)
(* lines with the 100% cap, signing, the two-step approval workflow,       *)
(* demand/supply lines, publish snapshots and notification runs.           *)
(* Every request handler is one atomic action (one request = one           *)
(* transaction); a handler that raises leaves the tables unchanged and     *)
(* records the error code in `last`.                                       *)
(***************************************************************************)
EXTENDS Integers, Sequences, FiniteSets, TLC

VARIABLES
    periods,      \* Period rows
    actuals,      \* ActualLine rows
    instances,    \* ApprovalInstance rows
    steps,        \* ApprovalStep rows
    actionLog,    \* ApprovalAction rows
    demands,      \* DemandLine rows
    supplies,     \* SupplyLine rows
    snapshots,    \* PublishSnapshot rows
    snapLines,    \* PublishSnapshotLine rows
    notifLogs,    \* NotificationLog rows
    activeUsers,  \* the User rows with is_active set
    runAudit,     \* AuditLog rows written by run_notifications
    org,          \* organisational master data read by the approval workflow
    inflight,     \* requests that passed their checks and have not committed
    holidays,     \* dates of the Holiday rows of the tenant
    nextId,       \* per-table count of primary keys handed out so far
    last          \* outcome of the most recent request

vars == <<periods, actuals, instances, steps, actionLog, demands, supplies,
          snapshots, snapLines, notifLogs, activeUsers, runAudit, org,
          inflight, holidays, nextId, last>>

NULL == "NULL"
\* exclude_line_id = None
NoLine == 0

-----------------------------------------------------------------------------
(* Bounds of the model *)

\* rows ever inserted, per table and per specification
MaxPeriods == 2
MaxLines == 1
MaxActuals == 2
MaxPlanLines == 1
MaxPubLines == 1
MaxSnapshots == 2
MaxRuns == 3
MaxSignLines == 2
MaxDemands == 2
MaxFteLines == 1
MaxInboxLines == 2
MaxUniqueLines == 2
MaxCopyLines == 1
MaxDashLines == 2
MaxBulkLines == 2
MaxBulkActions == 2
MaxKeyedLines == 2
MaxInflight == 2
MaxTenantLines == 2

-----------------------------------------------------------------------------
(* Request inputs *)

Years == {2026}
Months == {1, 2}
Resources == {"r1", "r2"}
Projects == {"p1", "p2"}
Placeholders == {"ph1"}
FteInputs == {7, 50, 60}
PlanFteInputs == {0, 40, 60}
\* the clock of a request, as the get_4mfc_boundary of planning.py reads it
Clocks == {[year |-> 2025, month |-> 9], [year |-> 2025, month |-> 11]}
Reasons == {"", " ", "vacation"}

\* User rows of the tenant: id (also the caller's object_id) and role
Users == {[id |-> "u1", role |-> "RO"],
          [id |-> "u2", role |-> "Director"],
          [id |-> "u4", role |-> "Employee"]}
UserIds == {u.id : u \in Users}

\* Organisational data of the resources' cost center: whether the resource
\* has a cost center, who owns it, and whether its department has a Director
OrgConfigs ==
    {[cost_center |-> TRUE,  ro_user_id |-> "u1", director |-> "u2"],
     [cost_center |-> TRUE,  ro_user_id |-> "u2", director |-> "u2"],
     [cost_center |-> TRUE,  ro_user_id |-> NULL, director |-> "u2"],
     [cost_center |-> FALSE, ro_user_id |-> "u1", director |-> "u2"]}

DefaultOrg == [cost_center |-> TRUE, ro_user_id |-> "u1", director |-> "u2"]

Ok == "OK"
\* the response to a request: the operation, its error code (or OK) and, for
\* ACTUALS_OVER_100, the total_percent it reports
Idle == [op |-> "none", code |-> Ok, val |-> 0]
Result(op, code, val) == [op |-> op, code |-> code, val |-> val]

RECURSIVE SumFte(_)
SumFte(S) ==
    IF S = {} THEN 0
    ELSE LET x == CHOOSE y \in S : TRUE
         IN x.actual_fte_percent + SumFte(S \ {x})

-----------------------------------------------------------------------------
(* PeriodService *)

\* variant: the month is not part of the look-up
PeriodByYearMonthAnyMonth(t, y, m) ==
    {p \in periods : p.tenant_id = t /\ p.year = y}

PeriodByYearMonth(t, y, m) ==
    {p \in periods : p.tenant_id = t /\ p.year = y /\ p.month = m}

PeriodById(t, pid) == {p \in periods : p.id = pid /\ p.tenant_id = t}

\* variant: only an OPEN period of the month stands in the way of a new one
PeriodCreateCodeOpenOnly(t, y, m) ==
    IF \E p \in PeriodByYearMonth(t, y, m) : p.status = "open"
    THEN "CONFLICT" ELSE Ok

PeriodCreateCode(t, y, m) ==
    IF PeriodByYearMonth(t, y, m) # {} THEN "CONFLICT" ELSE Ok

PeriodCreate(t, y, m) ==
    /\ LET code == PeriodCreateCode(t, y, m)
           pid == nextId.period + 1
       IN IF code = Ok
          THEN /\ periods' = periods \cup
                     {[id |-> pid, tenant_id |-> t, year |-> y, month |-> m,
                       status |-> "open", locked_at |-> NULL,
                       locked_by |-> NULL, lock_reason |-> NULL]}
               /\ nextId' = [nextId EXCEPT !.period = pid]
               /\ last' = Result("period_create", Ok, 0)
          ELSE /\ UNCHANGED <<periods, nextId>>
               /\ last' = Result("period_create", code, 0)
    /\ UNCHANGED <<actuals, instances, steps, actionLog, demands, supplies,
                   snapshots, snapLines, notifLogs, activeUsers,
                   runAudit, org, inflight, holidays>>

PeriodLockCode(t, pid) ==
    IF PeriodById(t, pid) = {} THEN "NOT_FOUND"
    ELSE IF (CHOOSE p \in PeriodById(t, pid) : TRUE).status = "locked"
         THEN "VALIDATION_ERROR"
         ELSE Ok

PeriodLock(t, pid, actor) ==
    /\ LET code == PeriodLockCode(t, pid)
       IN /\ periods' =
                 IF code = Ok
                 THEN {IF p.id = pid /\ p.tenant_id = t
                       THEN [p EXCEPT !.status = "locked", !.locked_at = "t",
                                      !.locked_by = actor, !.lock_reason = NULL]
                       ELSE p : p \in periods}
                 ELSE periods
          /\ last' = Result("period_lock", code, 0)
    /\ UNCHANGED <<actuals, instances, steps, actionLog, demands, supplies,
                   snapshots, snapLines, notifLogs, activeUsers,
                   runAudit, org, inflight, holidays, nextId>>

\* str.strip() of the reasons the clients send
Strip(reason) == IF reason = " " THEN "" ELSE reason

\* variant: the reason is not looked at
PeriodUnlockCodeNoReason(t, pid, reason) ==
    IF PeriodById(t, pid) = {} THEN "NOT_FOUND"
    ELSE IF (CHOOSE p \in PeriodById(t, pid) : TRUE).status = "open"
         THEN "VALIDATION_ERROR"
         ELSE Ok

PeriodUnlockCode(t, pid, reason) ==
    IF reason = "" \/ Strip(reason) = "" THEN "VALIDATION_ERROR"
    ELSE IF PeriodById(t, pid) = {} THEN "NOT_FOUND"
    ELSE IF (CHOOSE p \in PeriodById(t, pid) : TRUE).status = "open"
         THEN "VALIDATION_ERROR"
         ELSE Ok

PeriodUnlock(t, pid, reason) ==
    /\ LET code == PeriodUnlockCode(t, pid, reason)
       IN /\ periods' =
                 IF code = Ok
                 THEN {IF p.id = pid /\ p.tenant_id = t
                       THEN [p EXCEPT !.status = "open",
                                      !.lock_reason = Strip(reason)]
                       ELSE p : p \in periods}
                 ELSE periods
          /\ last' = Result("period_unlock", code, 0)
    /\ UNCHANGED <<actuals, instances, steps, actionLog, demands, supplies,
                   snapshots, snapLines, notifLogs, activeUsers,
                   runAudit, org, inflight, holidays, nextId>>

\* variant: a period counts as locked once it carries a lock timestamp
CheckPeriodOpenByLockedAt(t, y, m) ==
    IF PeriodByYearMonth(t, y, m) = {} THEN "NOT_FOUND"
    ELSE IF (CHOOSE p \in PeriodByYearMonth(t, y, m) : TRUE).locked_at # NULL
         THEN "PERIOD_LOCKED"
         ELSE Ok

\* _check_period_open of the actuals, demand and supply services
CheckPeriodOpen(t, y, m) ==
    IF PeriodByYearMonth(t, y, m) = {} THEN "NOT_FOUND"
    ELSE IF (CHOOSE p \in PeriodByYearMonth(t, y, m) : TRUE).status = "locked"
         THEN "PERIOD_LOCKED"
         ELSE Ok

-----------------------------------------------------------------------------
(* ActualsService *)

\* FTE validation of actual lines: 0, or 5..100 in steps of 5
ActualFteInvalid(fte) ==
    fte # 0 /\ (fte < 5 \/ fte > 100 \/ fte % 5 # 0)

ActualById(t, aid) == {a \in actuals : a.id = aid /\ a.tenant_id = t}

\* variant: the lines of every tenant are summed
ExistingLinesAnyTenant(t, r, y, m, exclude) ==
    {a \in actuals : /\ a.resource_id = r
                     /\ a.year = y
                     /\ a.month = m
                     /\ (exclude # NoLine => a.id # exclude)}

\* the lines _check_100_percent_limit sums: same tenant, resource, year and
\* month, without the excluded line
ExistingLines(t, r, y, m, exclude) ==
    {a \in actuals : /\ a.tenant_id = t
                     /\ a.resource_id = r
                     /\ a.year = y
                     /\ a.month = m
                     /\ (exclude # NoLine => a.id # exclude)}

NewTotal(t, r, y, m, new_fte, exclude) ==
    SumFte(ExistingLines(t, r, y, m, exclude)) + new_fte

\* variant: only the new value is compared with the cap
Check100NewValueOnly(t, r, y, m, new_fte, exclude) ==
    IF new_fte > 100 THEN "ACTUALS_OVER_100" ELSE Ok

\* variant: a total of exactly 100 is refused as well
Check100Inclusive(t, r, y, m, new_fte, exclude) ==
    IF NewTotal(t, r, y, m, new_fte, exclude) >= 100
    THEN "ACTUALS_OVER_100" ELSE Ok

Check100PercentLimit(t, r, y, m, new_fte, exclude) ==
    IF NewTotal(t, r, y, m, new_fte, exclude) > 100
    THEN "ACTUALS_OVER_100" ELSE Ok

ActualDuplicate(t, r, p, y, m) ==
    \E a \in actuals : /\ a.tenant_id = t
                       /\ a.resource_id = r
                       /\ a.project_id = p
                       /\ a.year = y
                       /\ a.month = m

ActualCreateCode(t, r, p, y, m, fte) ==
    IF CheckPeriodOpen(t, y, m) # Ok THEN CheckPeriodOpen(t, y, m)
    ELSE IF ActualFteInvalid(fte) THEN "FTE_INVALID"
    ELSE IF r \notin Resources \/ p \notin Projects THEN "NOT_FOUND"
    ELSE IF ActualDuplicate(t, r, p, y, m) THEN "CONFLICT"
    ELSE Check100PercentLimit(t, r, y, m, fte, NoLine)

ActualCreate(t, r, p, y, m, fte) ==
    /\ LET code == ActualCreateCode(t, r, p, y, m, fte)
           aid == nextId.actual + 1
           period == CHOOSE q \in PeriodByYearMonth(t, y, m) : TRUE
       IN IF code = Ok
          THEN /\ actuals' = actuals \cup
                     {[id |-> aid, tenant_id |-> t, period_id |-> period.id,
                       resource_id |-> r, project_id |-> p,
                       year |-> y, month |-> m,
                       actual_fte_percent |-> fte,
                       employee_signed_at |-> NULL,
                       employee_signed_by |-> NULL,
                       is_proxy_signed |-> FALSE]}
               /\ nextId' = [nextId EXCEPT !.actual = aid]
               /\ last' = Result("actual_create", Ok, 0)
          ELSE /\ UNCHANGED <<actuals, nextId>>
               /\ last' = Result("actual_create", code, IF code = "ACTUALS_OVER_100"
                                 THEN NewTotal(t, r, y, m, fte, NoLine) ELSE 0)
    /\ UNCHANGED <<periods, instances, steps, actionLog, demands, supplies,
                   snapshots, snapLines, notifLogs, activeUsers,
                   runAudit, org, inflight, holidays>>

TheActual(t, aid) == CHOOSE a \in ActualById(t, aid) : TRUE

ActualUpdateCode(t, aid, fte) ==
    IF ActualById(t, aid) = {} THEN "NOT_FOUND"
    ELSE LET a == TheActual(t, aid)
         IN IF a.employee_signed_at # NULL THEN "VALIDATION_ERROR"
            ELSE IF CheckPeriodOpen(t, a.year, a.month) # Ok
                 THEN CheckPeriodOpen(t, a.year, a.month)
            ELSE IF ActualFteInvalid(fte) THEN "FTE_INVALID"
            ELSE Check100PercentLimit(t, a.resource_id, a.year, a.month,
                                      fte, a.id)

ActualUpdate(t, aid, fte) ==
    /\ LET code == ActualUpdateCode(t, aid, fte)
       IN /\ actuals' =
                 IF code = Ok
                 THEN {IF a.id = aid /\ a.tenant_id = t
                       THEN [a EXCEPT !.actual_fte_percent = fte]
                       ELSE a : a \in actuals}
                 ELSE actuals
          /\ last' = Result("actual_update", code, IF code = "ACTUALS_OVER_100"
                            THEN LET a == TheActual(t, aid)
                                 IN NewTotal(t, a.resource_id, a.year,
                                             a.month, fte, a.id)
                            ELSE 0)
    /\ UNCHANGED <<periods, instances, steps, actionLog, demands, supplies,
                   snapshots, snapLines, notifLogs, activeUsers,
                   runAudit, org, inflight, holidays, nextId>>

\* variant: signed lines may be deleted
ActualDeleteCodeNoSignedCheck(t, aid) ==
    IF ActualById(t, aid) = {} THEN "NOT_FOUND"
    ELSE LET a == TheActual(t, aid)
         IN CheckPeriodOpen(t, a.year, a.month)

ActualDeleteCode(t, aid) ==
    IF ActualById(t, aid) = {} THEN "NOT_FOUND"
    ELSE LET a == TheActual(t, aid)
         IN IF a.employee_signed_at # NULL THEN "VALIDATION_ERROR"
            ELSE CheckPeriodOpen(t, a.year, a.month)

ActualDelete(t, aid) ==
    /\ LET code == ActualDeleteCode(t, aid)
       IN /\ actuals' = IF code = Ok THEN actuals \ ActualById(t, aid)
                        ELSE actuals
          /\ last' = Result("actual_delete", code, 0)
    /\ UNCHANGED <<periods, instances, steps, actionLog, demands, supplies,
                   snapshots, snapLines, notifLogs, activeUsers,
                   runAudit, org, inflight, holidays, nextId>>

-----------------------------------------------------------------------------
(* DemandService *)

\* get_4mfc_boundary: year and month of now + relativedelta(months=4)
Get4MfcBoundary(now) ==
    IF now.month + 4 > 12
    THEN [year |-> now.year + 1, month |-> now.month + 4 - 12]
    ELSE [year |-> now.year, month |-> now.month + 4]

\* the boundary as is_within_4mfc compares it: year * 12 + month
Boundary4Mfc(now) ==
    Get4MfcBoundary(now).year * 12 + Get4MfcBoundary(now).month

\* variant: the boundary month is inside the window
IsWithin4MfcInclusive(y, m, now) == y * 12 + m <= Boundary4Mfc(now)

IsWithin4Mfc(y, m, now) == y * 12 + m < Boundary4Mfc(now)

\* variant: 0 is a valid value of demand and supply lines too
PlanFteInvalidZeroAllowed(fte) ==
    fte # 0 /\ (fte < 5 \/ fte > 100 \/ fte % 5 # 0)

\* FTE validation of demand and supply lines: 5..100 in steps of 5
PlanFteInvalid(fte) == fte < 5 \/ fte > 100 \/ fte % 5 # 0

DemandById(t, did) == {d \in demands : d.id = did /\ d.tenant_id = t}
TheDemand(t, did) == CHOOSE d \in DemandById(t, did) : TRUE

\* truth value of an optional string argument: None and "" are false
Truthy(x) == x # NULL /\ x # ""

\* variant: only lines naming a resource are looked up
DemandDuplicateResourceOnly(t, p, y, m, r, ph) ==
    \E d \in demands : /\ d.tenant_id = t
                       /\ d.project_id = p
                       /\ d.year = y
                       /\ d.month = m
                       /\ Truthy(r) /\ d.resource_id = r

DemandDuplicate(t, p, y, m, r, ph) ==
    \E d \in demands : /\ d.tenant_id = t
                       /\ d.project_id = p
                       /\ d.year = y
                       /\ d.month = m
                       /\ IF Truthy(r) THEN d.resource_id = r
                          ELSE d.placeholder_id = ph

\* ck_demand_xor, the CHECK constraint of the demand_lines table
CkDemandXor(r, ph) ==
    (r # NULL /\ ph = NULL) \/ (r = NULL /\ ph # NULL)

\* variant: a demand line may name a resource and a placeholder
DemandCreateCodeNoXor(t, p, y, m, fte, r, ph, now) ==
    IF CheckPeriodOpen(t, y, m) # Ok THEN CheckPeriodOpen(t, y, m)
    ELSE IF ~Truthy(r) /\ ~Truthy(ph) THEN "DEMAND_XOR"
    ELSE IF Truthy(ph) /\ IsWithin4Mfc(y, m, now) THEN "PLACEHOLDER_BLOCKED_4MFC"
    ELSE IF PlanFteInvalid(fte) THEN "FTE_INVALID"
    ELSE IF p \notin Projects THEN "NOT_FOUND"
    ELSE IF Truthy(r) /\ r \notin Resources THEN "NOT_FOUND"
    ELSE IF Truthy(ph) /\ ph \notin Placeholders THEN "NOT_FOUND"
    ELSE IF DemandDuplicate(t, p, y, m, r, ph) THEN "CONFLICT"
    ELSE Ok

\* the checks of create in their order; a row that breaks ck_demand_xor is
\* refused by the database when the insert is committed
DemandCreateCode(t, p, y, m, fte, r, ph, now) ==
    IF CheckPeriodOpen(t, y, m) # Ok THEN CheckPeriodOpen(t, y, m)
    ELSE IF Truthy(r) /\ Truthy(ph) THEN "DEMAND_XOR"
    ELSE IF ~Truthy(r) /\ ~Truthy(ph) THEN "DEMAND_XOR"
    ELSE IF Truthy(ph) /\ IsWithin4Mfc(y, m, now) THEN "PLACEHOLDER_BLOCKED_4MFC"
    ELSE IF PlanFteInvalid(fte) THEN "FTE_INVALID"
    ELSE IF p \notin Projects THEN "NOT_FOUND"
    ELSE IF Truthy(r) /\ r \notin Resources THEN "NOT_FOUND"
    ELSE IF Truthy(ph) /\ ph \notin Placeholders THEN "NOT_FOUND"
    ELSE IF DemandDuplicate(t, p, y, m, r, ph) THEN "CONFLICT"
    ELSE IF ~CkDemandXor(r, ph) THEN "INTERNAL_ERROR"
    ELSE Ok

DemandCreate(t, p, y, m, fte, r, ph, now) ==
    /\ LET code == DemandCreateCode(t, p, y, m, fte, r, ph, now)
           did == nextId.demand + 1
           period == CHOOSE q \in PeriodByYearMonth(t, y, m) : TRUE
       IN IF code = Ok
          THEN /\ demands' = demands \cup
                     {[id |-> did, tenant_id |-> t, period_id |-> period.id,
                       project_id |-> p, resource_id |-> r,
                       placeholder_id |-> ph, year |-> y, month |-> m,
                       fte_percent |-> fte]}
               /\ nextId' = [nextId EXCEPT !.demand = did]
          ELSE UNCHANGED <<demands, nextId>>
    /\ last' = Result("demand_create",
                      DemandCreateCode(t, p, y, m, fte, r, ph, now), 0)
    /\ UNCHANGED <<periods, actuals, instances, steps, actionLog, supplies,
                   snapshots, snapLines, notifLogs, activeUsers,
                   runAudit, org, inflight, holidays>>

DemandUpdateCode(t, did, fte) ==
    IF DemandById(t, did) = {} THEN "NOT_FOUND"
    ELSE LET d == TheDemand(t, did)
         IN IF CheckPeriodOpen(t, d.year, d.month) # Ok
            THEN CheckPeriodOpen(t, d.year, d.month)
            ELSE IF PlanFteInvalid(fte) THEN "FTE_INVALID"
            ELSE Ok

DemandUpdate(t, did, fte) ==
    /\ demands' = IF DemandUpdateCode(t, did, fte) = Ok
                  THEN {IF d.id = did /\ d.tenant_id = t
                        THEN [d EXCEPT !.fte_percent = fte]
                        ELSE d : d \in demands}
                  ELSE demands
    /\ last' = Result("demand_update", DemandUpdateCode(t, did, fte), 0)
    /\ UNCHANGED <<periods, actuals, instances, steps, actionLog, supplies,
                   snapshots, snapLines, notifLogs, activeUsers,
                   runAudit, org, inflight, holidays, nextId>>

DemandDeleteCode(t, did) ==
    IF DemandById(t, did) = {} THEN "NOT_FOUND"
    ELSE LET d == TheDemand(t, did)
         IN CheckPeriodOpen(t, d.year, d.month)

DemandDelete(t, did) ==
    /\ demands' = IF DemandDeleteCode(t, did) = Ok
                  THEN demands \ DemandById(t, did)
                  ELSE demands
    /\ last' = Result("demand_delete", DemandDeleteCode(t, did), 0)
    /\ UNCHANGED <<periods, actuals, instances, steps, actionLog, supplies,
                   snapshots, snapLines, notifLogs, activeUsers,
                   runAudit, org, inflight, holidays, nextId>>

-----------------------------------------------------------------------------
(* SupplyService *)

SupplyById(t, sid) == {x \in supplies : x.id = sid /\ x.tenant_id = t}
TheSupply(t, sid) == CHOOSE x \in SupplyById(t, sid) : TRUE

SupplyDuplicate(t, r, y, m) ==
    \E x \in supplies : /\ x.tenant_id = t
                        /\ x.resource_id = r
                        /\ x.year = y
                        /\ x.month = m

SupplyCreateCode(t, r, y, m, fte) ==
    IF CheckPeriodOpen(t, y, m) # Ok THEN CheckPeriodOpen(t, y, m)
    ELSE IF PlanFteInvalid(fte) THEN "FTE_INVALID"
    ELSE IF r \notin Resources THEN "NOT_FOUND"
    ELSE IF SupplyDuplicate(t, r, y, m) THEN "CONFLICT"
    ELSE Ok

SupplyCreate(t, r, y, m, fte) ==
    /\ LET code == SupplyCreateCode(t, r, y, m, fte)
           sid == nextId.supply + 1
           period == CHOOSE q \in PeriodByYearMonth(t, y, m) : TRUE
       IN IF code = Ok
          THEN /\ supplies' = supplies \cup
                     {[id |-> sid, tenant_id |-> t, period_id |-> period.id,
                       resource_id |-> r, year |-> y, month |-> m,
                       fte_percent |-> fte]}
               /\ nextId' = [nextId EXCEPT !.supply = sid]
          ELSE UNCHANGED <<supplies, nextId>>
    /\ last' = Result("supply_create", SupplyCreateCode(t, r, y, m, fte), 0)
    /\ UNCHANGED <<periods, actuals, instances, steps, actionLog, demands,
                   snapshots, snapLines, notifLogs, activeUsers,
                   runAudit, org, inflight, holidays>>

\* variant: the period of the line is not looked at
SupplyUpdateCodeNoPeriodCheck(t, sid, fte) ==
    IF SupplyById(t, sid) = {} THEN "NOT_FOUND"
    ELSE IF PlanFteInvalid(fte) THEN "FTE_INVALID"
    ELSE Ok

SupplyUpdateCode(t, sid, fte) ==
    IF SupplyById(t, sid) = {} THEN "NOT_FOUND"
    ELSE LET x == TheSupply(t, sid)
         IN IF CheckPeriodOpen(t, x.year, x.month) # Ok
            THEN CheckPeriodOpen(t, x.year, x.month)
            ELSE IF PlanFteInvalid(fte) THEN "FTE_INVALID"
            ELSE Ok

SupplyUpdate(t, sid, fte) ==
    /\ supplies' = IF SupplyUpdateCode(t, sid, fte) = Ok
                   THEN {IF x.id = sid /\ x.tenant_id = t
                         THEN [x EXCEPT !.fte_percent = fte]
                         ELSE x : x \in supplies}
                   ELSE supplies
    /\ last' = Result("supply_update", SupplyUpdateCode(t, sid, fte), 0)
    /\ UNCHANGED <<periods, actuals, instances, steps, actionLog, demands,
                   snapshots, snapLines, notifLogs, activeUsers,
                   runAudit, org, inflight, holidays, nextId>>

SupplyDeleteCode(t, sid) ==
    IF SupplyById(t, sid) = {} THEN "NOT_FOUND"
    ELSE LET x == TheSupply(t, sid)
         IN CheckPeriodOpen(t, x.year, x.month)

SupplyDelete(t, sid) ==
    /\ supplies' = IF SupplyDeleteCode(t, sid) = Ok
                   THEN supplies \ SupplyById(t, sid)
                   ELSE supplies
    /\ last' = Result("supply_delete", SupplyDeleteCode(t, sid), 0)
    /\ UNCHANGED <<periods, actuals, instances, steps, actionLog, demands,
                   snapshots, snapLines, notifLogs, activeUsers,
                   runAudit, org, inflight, holidays, nextId>>

-----------------------------------------------------------------------------
(* ApprovalsService.create_approval_for_actuals *)

\* RO: owner of the resource's cost center, if the resource has one
ResolveRo(r) == IF org.cost_center THEN org.ro_user_id ELSE NULL

\* Director: a Director user of the cost center's department
ResolveDirector(t, r) == IF org.cost_center THEN org.director ELSE NULL

\* variant: equal approvers suffice, resolved or not
SkipDirectorSameApprover(ro_user_id, director_user_id) ==
    ro_user_id = director_user_id

SkipDirector(ro_user_id, director_user_id) ==
    ro_user_id = director_user_id /\ ro_user_id # NULL

StepId(iid, order) == <<iid, order>>

NewInstance(t, iid, a) ==
    [id |-> iid, tenant_id |-> t, subject_type |-> "actuals",
     subject_id |-> a.id, status |-> "pending"]

NewSteps(t, iid, a) ==
    LET ro_user_id == ResolveRo(a.resource_id)
        director_user_id == ResolveDirector(t, a.resource_id)
    IN {[id |-> StepId(iid, 1), instance_id |-> iid, step_order |-> 1,
         step_name |-> "RO", approver_id |-> ro_user_id,
         status |-> "pending", actioned_by |-> NULL],
        [id |-> StepId(iid, 2), instance_id |-> iid, step_order |-> 2,
         step_name |-> "Director", approver_id |-> director_user_id,
         status |-> IF SkipDirector(ro_user_id, director_user_id)
                    THEN "skipped" ELSE "pending",
         actioned_by |-> NULL]}

\* _ensure_approval_instance: no-op when the subject already has an instance
InstanceExists(t, aid) ==
    \E i \in instances : /\ i.tenant_id = t
                         /\ i.subject_type = "actuals"
                         /\ i.subject_id = aid

EnsureApprovalInstance(t, a) ==
    IF InstanceExists(t, a.id)
    THEN UNCHANGED <<instances, steps, nextId>>
    ELSE LET iid == nextId.instance + 1
         IN /\ instances' = instances \cup {NewInstance(t, iid, a)}
            /\ steps' = steps \cup NewSteps(t, iid, a)
            /\ nextId' = [nextId EXCEPT !.instance = iid]

-----------------------------------------------------------------------------
(* ActualsService.sign / proxy_sign *)

\* variant: a line may be signed again
ActualSignCodeNoSignedCheck(t, aid) ==
    IF ActualById(t, aid) = {} THEN "NOT_FOUND"
    ELSE LET a == TheActual(t, aid)
         IN CheckPeriodOpen(t, a.year, a.month)

ActualSignCode(t, aid) ==
    IF ActualById(t, aid) = {} THEN "NOT_FOUND"
    ELSE LET a == TheActual(t, aid)
         IN IF a.employee_signed_at # NULL THEN "VALIDATION_ERROR"
            ELSE CheckPeriodOpen(t, a.year, a.month)

ActualSign(t, aid, actor) ==
    /\ LET code == ActualSignCode(t, aid)
       IN IF code = Ok
          THEN /\ actuals' = {IF a.id = aid /\ a.tenant_id = t
                              THEN [a EXCEPT !.employee_signed_at = "t",
                                             !.employee_signed_by = actor,
                                             !.is_proxy_signed = FALSE]
                              ELSE a : a \in actuals}
               /\ EnsureApprovalInstance(t, TheActual(t, aid))
               /\ last' = Result("actual_sign", Ok, 0)
          ELSE /\ UNCHANGED <<actuals, instances, steps, nextId>>
               /\ last' = Result("actual_sign", code, 0)
    /\ UNCHANGED <<periods, actionLog, demands, supplies,
                   snapshots, snapLines, notifLogs, activeUsers,
                   runAudit, org, inflight, holidays>>

ActualProxySignCode(t, aid, reason) ==
    IF ActualById(t, aid) = {} THEN "NOT_FOUND"
    ELSE LET a == TheActual(t, aid)
         IN IF a.employee_signed_at # NULL THEN "VALIDATION_ERROR"
            ELSE IF reason = "" \/ Strip(reason) = "" THEN "VALIDATION_ERROR"
            ELSE Ok

ActualProxySign(t, aid, reason, actor) ==
    /\ LET code == ActualProxySignCode(t, aid, reason)
       IN IF code = Ok
          THEN /\ actuals' = {IF a.id = aid /\ a.tenant_id = t
                              THEN [a EXCEPT !.employee_signed_at = "t",
                                             !.employee_signed_by = actor,
                                             !.is_proxy_signed = TRUE]
                              ELSE a : a \in actuals}
               /\ EnsureApprovalInstance(t, TheActual(t, aid))
               /\ last' = Result("actual_proxy_sign", Ok, 0)
          ELSE /\ UNCHANGED <<actuals, instances, steps, nextId>>
               /\ last' = Result("actual_proxy_sign", code, 0)
    /\ UNCHANGED <<periods, actionLog, demands, supplies,
                   snapshots, snapLines, notifLogs, activeUsers,
                   runAudit, org, inflight, holidays>>

-----------------------------------------------------------------------------
(* ApprovalsService.approve_step / reject_step *)

InstanceById(t, iid) == {i \in instances : i.id = iid /\ i.tenant_id = t}

StepById(iid, sid) == {s \in steps : s.id = sid /\ s.instance_id = iid}

StepsOf(iid) == {s \in steps : s.instance_id = iid}

\* _get_user: the caller's User row, if any
GetUser(t, actor) == {u \in Users : u.id = actor}

\* variant: every PENDING step counts as current
GetCurrentStepAnyPending(iid) ==
    {s \in StepsOf(iid) : s.status = "pending"}

\* _get_current_step: the first PENDING step in step_order, if any
GetCurrentStep(iid) ==
    LET pending == {s \in StepsOf(iid) : s.status = "pending"}
    IN {s \in pending : \A o \in pending : s.step_order <= o.step_order}

\* variant: a holder of the step's role may act beside the explicit approver
CanUserActionStepRoleToo(user, step) ==
    step.approver_id = user.id \/ user.role = step.step_name

CanUserActionStep(user, step) ==
    IF step.approver_id # NULL THEN step.approver_id = user.id
    ELSE IF step.step_name = "RO" THEN user.role = "RO"
    ELSE IF step.step_name = "Director" THEN user.role = "Director"
    ELSE FALSE

\* variant: the step's status is not looked at before the caller is
StepActionCodeNoPendingCheck(t, iid, sid, actor) ==
    IF InstanceById(t, iid) = {} THEN "NOT_FOUND"
    ELSE IF StepById(iid, sid) = {} THEN "NOT_FOUND"
    ELSE LET step == CHOOSE s \in StepById(iid, sid) : TRUE
         IN IF GetUser(t, actor) = {} THEN "UNAUTHORIZED_ROLE"
            ELSE IF ~CanUserActionStep(CHOOSE u \in GetUser(t, actor) : TRUE,
                                       step)
                 THEN "UNAUTHORIZED_ROLE"
            ELSE IF GetCurrentStep(iid) = {} \/ step \notin GetCurrentStep(iid)
                 THEN "VALIDATION_ERROR"
            ELSE Ok

\* the checks approve_step and reject_step share, in the order they are made
StepActionCode(t, iid, sid, actor) ==
    IF InstanceById(t, iid) = {} THEN "NOT_FOUND"
    ELSE IF StepById(iid, sid) = {} THEN "NOT_FOUND"
    ELSE LET step == CHOOSE s \in StepById(iid, sid) : TRUE
         IN IF step.status # "pending" THEN "VALIDATION_ERROR"
            ELSE IF GetUser(t, actor) = {} THEN "UNAUTHORIZED_ROLE"
            ELSE IF ~CanUserActionStep(CHOOSE u \in GetUser(t, actor) : TRUE,
                                       step)
                 THEN "UNAUTHORIZED_ROLE"
            ELSE IF GetCurrentStep(iid) = {} \/ step \notin GetCurrentStep(iid)
                 THEN "VALIDATION_ERROR"
            ELSE Ok

\* variant: the other PENDING steps of the instance are closed as well
StepsAfterClosingRest(iid, sid, actor, status) ==
    {IF s.instance_id = iid /\ (s.id = sid \/ s.status = "pending")
     THEN [s EXCEPT !.status = status, !.actioned_by = actor]
     ELSE s : s \in steps}

StepsAfter(iid, sid, actor, status) ==
    {IF s.id = sid /\ s.instance_id = iid
     THEN [s EXCEPT !.status = status, !.actioned_by = actor]
     ELSE s : s \in steps}

\* variant: one finished step suffices
AllDoneAnyStep(iid, stepsNow) ==
    \E s \in {x \in stepsNow : x.instance_id = iid} :
        s.status \in {"approved", "skipped"}

\* all(s.status in (APPROVED, SKIPPED) for s in instance.steps), evaluated
\* on the steps as they are after the step was set to APPROVED
AllDone(iid, stepsNow) ==
    \A s \in {x \in stepsNow : x.instance_id = iid} :
        s.status \in {"approved", "skipped"}

\* variant: the row names the first step of the instance
ActionRowFirstStep(t, iid, sid, action, actor) ==
    [id |-> <<sid, Cardinality({r \in actionLog : r.step_id = sid}) + 1>>,
     tenant_id |-> t, instance_id |-> iid, step_id |-> StepId(iid, 1),
     action |-> action, performed_by |-> actor]

\* a new ApprovalAction row; its primary key is the ordinal of the row among
\* the rows of its step
ActionRow(t, iid, sid, action, actor) ==
    [id |-> <<sid, Cardinality({r \in actionLog : r.step_id = sid}) + 1>>,
     tenant_id |-> t, instance_id |-> iid, step_id |-> sid,
     action |-> action, performed_by |-> actor]

ApproveStep(t, iid, sid, actor) ==
    /\ LET code == StepActionCode(t, iid, sid, actor)
       IN IF code = Ok
          THEN /\ steps' = StepsAfter(iid, sid, actor, "approved")
               /\ actionLog' = actionLog \cup
                                  {ActionRow(t, iid, sid, "approve", actor)}
               /\ instances' =
                      IF AllDone(iid, StepsAfter(iid, sid, actor, "approved"))
                      THEN {IF i.id = iid THEN [i EXCEPT !.status = "approved"]
                            ELSE i : i \in instances}
                      ELSE instances
               /\ last' = Result("approve", Ok, 0)
          ELSE /\ UNCHANGED <<steps, actionLog, instances>>
               /\ last' = Result("approve", code, 0)
    /\ UNCHANGED <<periods, actuals, demands, supplies,
                   snapshots, snapLines, notifLogs, activeUsers,
                   runAudit, org, inflight, holidays, nextId>>

RejectStep(t, iid, sid, actor) ==
    /\ LET code == StepActionCode(t, iid, sid, actor)
       IN IF code = Ok
          THEN /\ steps' = StepsAfter(iid, sid, actor, "rejected")
               /\ instances' = {IF i.id = iid
                                THEN [i EXCEPT !.status = "rejected"]
                                ELSE i : i \in instances}
               /\ actionLog' = actionLog \cup
                                  {ActionRow(t, iid, sid, "reject", actor)}
               /\ last' = Result("reject", Ok, 0)
          ELSE /\ UNCHANGED <<steps, actionLog, instances>>
               /\ last' = Result("reject", code, 0)
    /\ UNCHANGED <<periods, actuals, demands, supplies,
                   snapshots, snapLines, notifLogs, activeUsers,
                   runAudit, org, inflight, holidays, nextId>>

-----------------------------------------------------------------------------
(* ConsolidationService.publish_snapshot *)

\* names of the master data rows, as publish_snapshot looks them up
ProjectName(p) == IF p \in Projects THEN <<"project", p>> ELSE NULL
ResourceName(r) == IF r \in Resources THEN <<"resource", r>> ELSE NULL
PlaceholderName(ph) == IF ph \in Placeholders THEN <<"placeholder", ph>> ELSE NULL

\* the oop_lines table: no handler of the repository writes or deletes its
\* rows, they are loaded beside the API; here one row for every period
OopLines ==
    {[id |-> q.id, tenant_id |-> q.tenant_id, period_id |-> q.id,
      resource_id |-> "r2", project_id |-> "p1",
      year |-> q.year, month |-> q.month,
      hours |-> 10, hourly_rate |-> 50, total_cost |-> 500] : q \in periods}

\* a PublishSnapshotLine row; its primary key is made of the snapshot, the
\* line type and the copied row's key
SnapshotLine(sid, type, src, p, r, ph, fte, hours, cost) ==
    [id |-> <<sid, type, src.id>>, snapshot_id |-> sid, line_type |-> type,
     project_id |-> p, project_name |-> IF p = NULL THEN NULL ELSE ProjectName(p),
     resource_id |-> r,
     resource_name |-> IF r = NULL THEN NULL ELSE ResourceName(r),
     placeholder_id |-> ph,
     placeholder_name |-> IF ph = NULL THEN NULL ELSE PlaceholderName(ph),
     year |-> src.year, month |-> src.month,
     fte_percent |-> fte, hours |-> hours, cost |-> cost]

\* variant: the lines of every period of the tenant are copied
CopiedLinesOfTenant(t, pid, sid) ==
    {SnapshotLine(sid, "demand", d, d.project_id, d.resource_id,
                  d.placeholder_id, d.fte_percent, NULL, NULL) :
        d \in {x \in demands : x.tenant_id = t}}
    \cup
    {SnapshotLine(sid, "supply", x, NULL, x.resource_id, NULL,
                  x.fte_percent, NULL, NULL) :
        x \in {y \in supplies : y.tenant_id = t}}
    \cup
    {SnapshotLine(sid, "actual", a, a.project_id, a.resource_id, NULL,
                  a.actual_fte_percent, NULL, NULL) :
        a \in {x \in actuals : x.tenant_id = t}}
    \cup
    {SnapshotLine(sid, "oop", o, o.project_id, o.resource_id, NULL,
                  NULL, o.hours, o.total_cost) :
        o \in {x \in OopLines : x.tenant_id = t}}

\* the rows publish_snapshot copies: the lines whose period_id is the period
CopiedLines(t, pid, sid) ==
    {SnapshotLine(sid, "demand", d, d.project_id, d.resource_id,
                  d.placeholder_id, d.fte_percent, NULL, NULL) :
        d \in {x \in demands : x.tenant_id = t /\ x.period_id = pid}}
    \cup
    {SnapshotLine(sid, "supply", x, NULL, x.resource_id, NULL,
                  x.fte_percent, NULL, NULL) :
        x \in {y \in supplies : y.tenant_id = t /\ y.period_id = pid}}
    \cup
    {SnapshotLine(sid, "actual", a, a.project_id, a.resource_id, NULL,
                  a.actual_fte_percent, NULL, NULL) :
        a \in {x \in actuals : x.tenant_id = t /\ x.period_id = pid}}
    \cup
    {SnapshotLine(sid, "oop", o, o.project_id, o.resource_id, NULL,
                  NULL, o.hours, o.total_cost) :
        o \in {x \in OopLines : x.tenant_id = t /\ x.period_id = pid}}

PublishSnapshotCode(t, pid) ==
    IF PeriodById(t, pid) = {} THEN "NOT_FOUND" ELSE Ok

\* variant: a period has one snapshot, which a later publish overwrites
PublishSnapshotReplacing(t, pid, actor) ==
    /\ LET sid == nextId.snapshot + 1
       IN IF PublishSnapshotCode(t, pid) = Ok
          THEN /\ snapshots' = snapshots \cup
                     {[id |-> sid, tenant_id |-> t, period_id |-> pid,
                       published_by |-> actor]}
               /\ snapLines' =
                     {l \in snapLines :
                        \A sn \in snapshots :
                           sn.id = l.snapshot_id => sn.period_id # pid}
                     \cup CopiedLines(t, pid, sid)
               /\ nextId' = [nextId EXCEPT !.snapshot = sid]
          ELSE UNCHANGED <<snapshots, snapLines, nextId>>
    /\ last' = Result("publish", PublishSnapshotCode(t, pid), 0)
    /\ UNCHANGED <<periods, actuals, instances, steps, actionLog, demands,
                   supplies, notifLogs, activeUsers,
                   runAudit, org, inflight, holidays>>

PublishSnapshot(t, pid, actor) ==
    /\ LET sid == nextId.snapshot + 1
       IN IF PublishSnapshotCode(t, pid) = Ok
          THEN /\ snapshots' = snapshots \cup
                     {[id |-> sid, tenant_id |-> t, period_id |-> pid,
                       published_by |-> actor]}
               /\ snapLines' = snapLines \cup CopiedLines(t, pid, sid)
               /\ nextId' = [nextId EXCEPT !.snapshot = sid]
          ELSE UNCHANGED <<snapshots, snapLines, nextId>>
    /\ last' = Result("publish", PublishSnapshotCode(t, pid), 0)
    /\ UNCHANGED <<periods, actuals, instances, steps, actionLog, demands,
                   supplies, notifLogs, activeUsers,
                   runAudit, org, inflight, holidays>>

-----------------------------------------------------------------------------
(* NotificationsService.run_notifications *)

Phases == {"PM_RO", "Finance", "Employee", "RO_Director"}

\* role_map of _get_recipients_for_phase
RoleMap(phase) ==
    CASE phase = "PM_RO" -> {"PM", "RO"}
      [] phase = "Finance" -> {"Finance"}
      [] phase = "Employee" -> {"Employee"}
      [] phase = "RO_Director" -> {"RO", "Director"}
      [] OTHER -> {}

\* the active users of the tenant holding a role of the phase
GetRecipientsForPhase(t, phase) ==
    {u \in activeUsers : u.role \in RoleMap(phase)}

\* the NotificationLog rows of one tenant, phase, year and month
ExistingLogs(t, phase, y, m) ==
    {l \in notifLogs : /\ l.tenant_id = t /\ l.phase = phase
                        /\ l.year = y /\ l.month = m}

\* run_notifications in stub mode, called by a signed-in user of tenant t;
\* `last` holds the status and the run_id (or existing_run_id) of the answer
RunNotifications(t, phase, y, m) ==
    /\ LET run_id == nextId.run + 1
           existing == ExistingLogs(t, phase, y, m)
       IN IF existing # {}
          THEN /\ \E l \in existing :
                     last' = Result("run_notifications", "already_run", l.run_id)
               /\ UNCHANGED <<notifLogs, runAudit, nextId>>
          ELSE /\ notifLogs' = notifLogs \cup
                     {[tenant_id |-> t, phase |-> phase, year |-> y,
                       month |-> m, recipient_user_id |-> u.id,
                       status |-> "sent", run_id |-> run_id] :
                         u \in GetRecipientsForPhase(t, phase)}
               /\ runAudit' = runAudit \cup
                     {[tenant_id |-> t, entity_id |-> run_id, phase |-> phase,
                       year |-> y, month |-> m,
                       recipients_count |->
                           Cardinality(GetRecipientsForPhase(t, phase))]}
               /\ nextId' = [nextId EXCEPT !.run = run_id]
               /\ last' = Result("run_notifications", "success", run_id)
    /\ UNCHANGED <<periods, actuals, instances, steps, actionLog, demands,
                   supplies, snapshots, snapLines, activeUsers, org, inflight, holidays>>

-----------------------------------------------------------------------------
(* The approval workflow: periods, actual lines, signing, approve/reject *)

MainTenants == {"t1"}
MainMonths == {1}
MainResources == {"r1"}
EmployeeActors == {"u4"}
ProxyActors == {"u1"}
FinanceActors == {"fin"}

\* the tables of a new database, no request answered yet
EmptyTables ==
    /\ periods = {}
    /\ actuals = {}
    /\ instances = {}
    /\ steps = {}
    /\ actionLog = {}
    /\ demands = {}
    /\ supplies = {}
    /\ snapshots = {}
    /\ snapLines = {}
    /\ notifLogs = {}
    /\ runAudit = {}
    /\ holidays = {}
    /\ inflight = {}
    /\ nextId = [period |-> 0, actual |-> 0, instance |-> 0, demand |-> 0,
                 supply |-> 0, snapshot |-> 0, run |-> 0]
    /\ last = Idle

Init ==
    /\ EmptyTables
    /\ activeUsers = Users
    /\ org \in OrgConfigs

\* a successful insert is possible while fewer than max rows were inserted
Room(code, inserted, max) == code = Ok => inserted < max

LineIds == 1..MaxLines
PeriodIds == 1..MaxPeriods
Approvers == {"u1", "u2", "u4"}

Next ==
    \E t \in MainTenants :
        \/ \E y \in Years, m \in MainMonths :
              /\ Room(PeriodCreateCode(t, y, m), nextId.period, MaxPeriods)
              /\ PeriodCreate(t, y, m)
        \/ \E pid \in PeriodIds, actor \in FinanceActors : PeriodLock(t, pid, actor)
        \/ \E pid \in PeriodIds, reason \in Reasons : PeriodUnlock(t, pid, reason)
        \/ \E r \in MainResources, p \in Projects, y \in Years, m \in MainMonths,
              fte \in FteInputs :
              /\ Room(ActualCreateCode(t, r, p, y, m, fte), nextId.actual, MaxLines)
              /\ ActualCreate(t, r, p, y, m, fte)
        \/ \E aid \in LineIds, fte \in FteInputs : ActualUpdate(t, aid, fte)
        \/ \E aid \in LineIds : ActualDelete(t, aid)
        \/ \E aid \in LineIds, actor \in EmployeeActors : ActualSign(t, aid, actor)
        \/ \E aid \in LineIds, reason \in Reasons, actor \in ProxyActors :
              ActualProxySign(t, aid, reason, actor)
        \/ \E iid \in LineIds, order \in {1, 2}, actor \in Approvers :
              ApproveStep(t, iid, StepId(iid, order), actor)
        \/ \E iid \in LineIds, order \in {1, 2}, actor \in Approvers :
              RejectStep(t, iid, StepId(iid, order), actor)

Spec == Init /\ [][Next]_vars

-----------------------------------------------------------------------------
(* Actual lines and the 100% cap: two resources, two projects, one month *)

ActualsFteInputs == {7, 40, 50, 60}
ActualIds == 1..MaxActuals

InitActuals == Init /\ org = DefaultOrg

NextActuals ==
    \E t \in MainTenants :
        \/ \E y \in Years, m \in MainMonths :
              /\ Room(PeriodCreateCode(t, y, m), nextId.period, MaxPeriods)
              /\ PeriodCreate(t, y, m)
        \/ \E pid \in PeriodIds, actor \in FinanceActors : PeriodLock(t, pid, actor)
        \/ \E pid \in PeriodIds, reason \in Reasons : PeriodUnlock(t, pid, reason)
        \/ \E r \in Resources, p \in Projects, y \in Years, m \in MainMonths,
              fte \in ActualsFteInputs :
              /\ Room(ActualCreateCode(t, r, p, y, m, fte), nextId.actual, MaxActuals)
              /\ ActualCreate(t, r, p, y, m, fte)
        \/ \E aid \in ActualIds, fte \in ActualsFteInputs : ActualUpdate(t, aid, fte)
        \/ \E aid \in ActualIds : ActualDelete(t, aid)

SpecActuals == InitActuals /\ [][NextActuals]_vars

\* the lines booked for one resource in one month, and their total
LinesOfMonth(t, r, y, m) ==
    {a \in actuals : a.tenant_id = t /\ a.resource_id = r
                                     /\ a.year = y /\ a.month = m}
TotalOfMonth(t, r, y, m) == SumFte(LinesOfMonth(t, r, y, m))

\* C1: after any sequence of create, update and delete calls on actual lines,
\* the actual_fte_percent of the lines of one tenant, resource, year and month
\* add up to at most 100.
C1_TotalAtMost100 ==
    \A t \in MainTenants, r \in Resources, y \in Years, m \in Months :
        TotalOfMonth(t, r, y, m) <= 100

\* two lines of one resource and month that fill the month exactly, the
\* second one just accepted
C1_Witness ==
    /\ last.op \in {"actual_create", "actual_update"}
    /\ last.code = Ok
    /\ \E t \in MainTenants, r \in Resources, y \in Years, m \in Months :
           /\ Cardinality(LinesOfMonth(t, r, y, m)) = 2
           /\ TotalOfMonth(t, r, y, m) = 100

\* what a create or update call must answer about the cap: others is the
\* total of the other lines of the month, reached says the call got as far
\* as the cap check
CapAnswer(reached, others, fte) ==
    /\ (last'.code = "ACTUALS_OVER_100") <=> (reached /\ others + fte > 100)
    /\ (reached /\ others + fte <= 100) => last'.code = Ok
    /\ last'.code = "ACTUALS_OVER_100" =>
           /\ last'.val = others + fte
           /\ UNCHANGED <<periods, actuals, instances, steps, actionLog,
                          demands, supplies, snapshots, snapLines, notifLogs,
                          activeUsers,
                   runAudit, org, inflight, holidays, nextId>>

-----------------------------------------------------------------------------
(* Planning under the period lock: demand, supply and actual lines of one month *)

PlanIds == 1..MaxPlanLines
PlanProjects == {"p1"}

NextPlan ==
    \E t \in MainTenants :
        \/ \E y \in Years, m \in MainMonths :
              /\ Room(PeriodCreateCode(t, y, m), nextId.period, MaxPeriods)
              /\ PeriodCreate(t, y, m)
        \/ \E pid \in PeriodIds, actor \in FinanceActors : PeriodLock(t, pid, actor)
        \/ \E pid \in PeriodIds, reason \in Reasons : PeriodUnlock(t, pid, reason)
        \/ \E p \in PlanProjects, y \in Years, m \in MainMonths,
              fte \in PlanFteInputs, r \in MainResources \cup {NULL},
              ph \in Placeholders \cup {NULL}, now \in Clocks :
              /\ Room(DemandCreateCode(t, p, y, m, fte, r, ph, now),
                      nextId.demand, MaxPlanLines)
              /\ DemandCreate(t, p, y, m, fte, r, ph, now)
        \/ \E did \in PlanIds, fte \in PlanFteInputs : DemandUpdate(t, did, fte)
        \/ \E did \in PlanIds : DemandDelete(t, did)
        \/ \E r \in MainResources, y \in Years, m \in MainMonths,
              fte \in PlanFteInputs :
              /\ Room(SupplyCreateCode(t, r, y, m, fte),
                      nextId.supply, MaxPlanLines)
              /\ SupplyCreate(t, r, y, m, fte)
        \/ \E sid \in PlanIds, fte \in PlanFteInputs : SupplyUpdate(t, sid, fte)
        \/ \E sid \in PlanIds : SupplyDelete(t, sid)
        \/ \E r \in MainResources, p \in PlanProjects, y \in Years,
              m \in MainMonths, fte \in FteInputs :
              /\ Room(ActualCreateCode(t, r, p, y, m, fte),
                      nextId.actual, MaxPlanLines)
              /\ ActualCreate(t, r, p, y, m, fte)
        \/ \E aid \in PlanIds, fte \in FteInputs : ActualUpdate(t, aid, fte)
        \/ \E aid \in PlanIds : ActualDelete(t, aid)
        \/ \E aid \in PlanIds, actor \in EmployeeActors : ActualSign(t, aid, actor)

SpecPlan == InitActuals /\ [][NextPlan]_vars

\* the period (t, y, m) exists and is LOCKED
Locked(t, y, m) ==
    \E q \in periods : /\ q.tenant_id = t /\ q.year = y /\ q.month = m
                       /\ q.status = "locked"

\* creates of demand, supply and actual lines dated in a LOCKED period and
\* updates and deletes of demand and supply lines dated in it answer
\* PERIOD_LOCKED
LockedRefusesPlanning ==
    \A t \in MainTenants :
      /\ \A y \in Years, m \in MainMonths : Locked(t, y, m) =>
            /\ \A p \in PlanProjects, fte \in PlanFteInputs,
                  r \in MainResources \cup {NULL}, ph \in Placeholders \cup {NULL},
                  now \in Clocks :
                  DemandCreate(t, p, y, m, fte, r, ph, now)
                  => last'.code = "PERIOD_LOCKED"
            /\ \A r \in MainResources, fte \in PlanFteInputs :
                  SupplyCreate(t, r, y, m, fte) => last'.code = "PERIOD_LOCKED"
            /\ \A r \in MainResources, p \in PlanProjects, fte \in FteInputs :
                  ActualCreate(t, r, p, y, m, fte)
                  => last'.code = "PERIOD_LOCKED"
      /\ \A d \in demands : Locked(t, d.year, d.month) =>
            /\ \A fte \in PlanFteInputs :
                  DemandUpdate(t, d.id, fte) => last'.code = "PERIOD_LOCKED"
            /\ DemandDelete(t, d.id) => last'.code = "PERIOD_LOCKED"
      /\ \A x \in supplies : Locked(t, x.year, x.month) =>
            /\ \A fte \in PlanFteInputs :
                  SupplyUpdate(t, x.id, fte) => last'.code = "PERIOD_LOCKED"
            /\ SupplyDelete(t, x.id) => last'.code = "PERIOD_LOCKED"

\* C2 as stated: while a period is LOCKED, every create, update and delete of
\* a demand, supply or actual line dated in it and every sign of an actual
\* line dated in it fails with PERIOD_LOCKED, whatever the line.
C2_Original ==
    [][/\ LockedRefusesPlanning
       /\ \A t \in MainTenants, a \in actuals :
             Locked(t, a.year, a.month) =>
                /\ \A fte \in FteInputs :
                      ActualUpdate(t, a.id, fte) => last'.code = "PERIOD_LOCKED"
                /\ ActualDelete(t, a.id) => last'.code = "PERIOD_LOCKED"
                /\ \A actor \in EmployeeActors :
                      ActualSign(t, a.id, actor) => last'.code = "PERIOD_LOCKED"
      ]_vars

\* C2, amended: as C2 for demand and supply lines, for creates of actual
\* lines and for update, delete and sign of an unsigned actual line; update,
\* delete and sign of an actual line that is already signed fail with
\* VALIDATION_ERROR, locked period or not.
C2_LockedRefuses ==
    [][/\ LockedRefusesPlanning
       /\ \A t \in MainTenants, a \in actuals :
             Locked(t, a.year, a.month) =>
                LET code == IF a.employee_signed_at = NULL
                            THEN "PERIOD_LOCKED" ELSE "VALIDATION_ERROR"
                IN /\ \A fte \in FteInputs :
                         ActualUpdate(t, a.id, fte) => last'.code = code
                   /\ ActualDelete(t, a.id) => last'.code = code
                   /\ \A actor \in EmployeeActors :
                         ActualSign(t, a.id, actor) => last'.code = code
      ]_vars

\* a LOCKED period holding a demand line, a supply line and an unsigned
\* actual line, just after a sign of the actual line was refused with
\* PERIOD_LOCKED
C2_Witness ==
    /\ last = Result("actual_sign", "PERIOD_LOCKED", 0)
    /\ \E t \in MainTenants, y \in Years, m \in Months :
           /\ Locked(t, y, m)
           /\ \E d \in demands : d.year = y /\ d.month = m
           /\ \E x \in supplies : x.year = y /\ x.month = m
           /\ \E a \in actuals : /\ a.year = y /\ a.month = m
                                 /\ a.employee_signed_at = NULL

-----------------------------------------------------------------------------
(* Publishing: snapshots of one period while its lines keep changing *)

PubIds == 1..MaxPubLines
PubFteInputs == {40, 60}
PubClocks == {[year |-> 2025, month |-> 9]}
\* demand, supply and actual lines inserted so far
LinesInserted == nextId.demand + nextId.supply + nextId.actual

NextPublish ==
    \E t \in MainTenants :
        \/ \E y \in Years, m \in MainMonths :
              /\ Room(PeriodCreateCode(t, y, m), nextId.period, MaxPeriods)
              /\ PeriodCreate(t, y, m)
        \/ \E pid \in PeriodIds, actor \in FinanceActors : PeriodLock(t, pid, actor)
        \/ \E pid \in PeriodIds, reason \in Reasons : PeriodUnlock(t, pid, reason)
        \/ \E p \in PlanProjects, y \in Years, m \in MainMonths,
              fte \in PubFteInputs, r \in MainResources \cup {NULL},
              ph \in Placeholders \cup {NULL}, now \in PubClocks :
              /\ Room(DemandCreateCode(t, p, y, m, fte, r, ph, now),
                      LinesInserted, MaxPubLines)
              /\ DemandCreate(t, p, y, m, fte, r, ph, now)
        \/ \E did \in PubIds, fte \in PubFteInputs : DemandUpdate(t, did, fte)
        \/ \E did \in PubIds : DemandDelete(t, did)
        \/ \E r \in MainResources, y \in Years, m \in MainMonths,
              fte \in PubFteInputs :
              /\ Room(SupplyCreateCode(t, r, y, m, fte),
                      LinesInserted, MaxPubLines)
              /\ SupplyCreate(t, r, y, m, fte)
        \/ \E sid \in PubIds, fte \in PubFteInputs : SupplyUpdate(t, sid, fte)
        \/ \E sid \in PubIds : SupplyDelete(t, sid)
        \/ \E r \in MainResources, p \in PlanProjects, y \in Years,
              m \in MainMonths, fte \in PubFteInputs :
              /\ Room(ActualCreateCode(t, r, p, y, m, fte),
                      LinesInserted, MaxPubLines)
              /\ ActualCreate(t, r, p, y, m, fte)
        \/ \E aid \in PubIds, fte \in PubFteInputs : ActualUpdate(t, aid, fte)
        \/ \E aid \in PubIds : ActualDelete(t, aid)
        \/ \E pid \in PeriodIds, actor \in FinanceActors :
              /\ Room(PublishSnapshotCode(t, pid), nextId.snapshot, MaxSnapshots)
              /\ PublishSnapshot(t, pid, actor)

SpecPublish == InitActuals /\ [][NextPublish]_vars

LinesOfSnapshot(lines, sid) == {l \in lines : l.snapshot_id = sid}

\* C5: whatever is called after a publish - a create, update or delete of a
\* demand, supply or actual line, a lock or unlock, another publish - a
\* published snapshot keeps its row, the number of its lines and every value
\* copied into them.
C5_SnapshotImmutable ==
    [][\A sn \in snapshots :
          /\ sn \in snapshots'
          /\ LinesOfSnapshot(snapLines', sn.id) = LinesOfSnapshot(snapLines, sn.id)
      ]_vars

\* two snapshots of one period: the first holds the line as it was published
\* first, the second holds another value of it, and the line was deleted
\* since, the period locked and unlocked again
C5_Witness ==
    \E s1, s2 \in snapshots :
        /\ s1.id < s2.id
        /\ s1.period_id = s2.period_id
        /\ \E l1 \in LinesOfSnapshot(snapLines, s1.id),
              l2 \in LinesOfSnapshot(snapLines, s2.id) :
              /\ l1.line_type = l2.line_type
              /\ l1.line_type # "oop"
              /\ l1.fte_percent = 40 /\ l2.fte_percent = 60
        /\ demands = {} /\ supplies = {} /\ actuals = {}
        /\ \E q \in periods : /\ q.id = s1.period_id
                              /\ q.status = "open"
                              /\ q.lock_reason = "vacation"

-----------------------------------------------------------------------------
(* Notification runs over a fixed set of active users *)

InitNotif ==
    /\ EmptyTables
    /\ activeUsers \in SUBSET Users
    /\ org = DefaultOrg

\* a run that answers success takes a new run_id
RunSucceeds(t, phase, y, m) == ExistingLogs(t, phase, y, m) = {}

NextNotif ==
    \E t \in MainTenants, phase \in Phases, y \in Years, m \in MainMonths :
        /\ RunSucceeds(t, phase, y, m) => nextId.run < MaxRuns
        /\ RunNotifications(t, phase, y, m)

SpecNotif == InitNotif /\ [][NextNotif]_vars

\* the runs the audit log records for one tenant, phase, year and month
RunsOf(t, phase, y, m) ==
    {r \in runAudit : /\ r.tenant_id = t /\ r.phase = phase
                       /\ r.year = y /\ r.month = m}

\* C6: for any tenant, phase, year and month and any set of active
\* recipients, a run_notifications call made after a first one has finished
\* answers already_run with the run_id of the first call and adds no
\* NotificationLog row; the log rows of one key share one run_id.
C6_SecondRunIdempotent ==
    [][\A t \in MainTenants, phase \in Phases, y \in Years, m \in MainMonths :
          /\ \A l1, l2 \in ExistingLogs(t, phase, y, m) : l1.run_id = l2.run_id
          /\ ( /\ RunsOf(t, phase, y, m) # {}
               /\ RunNotifications(t, phase, y, m) )
             => /\ last'.code = "already_run"
                /\ \A r \in RunsOf(t, phase, y, m) : last'.val <= r.entity_id
                /\ \E r \in RunsOf(t, phase, y, m) : last'.val = r.entity_id
                /\ notifLogs' = notifLogs
      ]_vars


\* the tables a refused approve or reject must leave alone
WorkflowTables == <<periods, actuals, instances, steps, actionLog, nextId>>

StepOfOrder(iid, order) ==
    CHOOSE s \in steps : s.instance_id = iid /\ s.step_order = order
HasStep(iid, order) ==
    \E s \in steps : s.instance_id = iid /\ s.step_order = order

\* a PENDING step of lower order exists in the same instance
LowerPending(s) ==
    \E o \in steps : /\ o.instance_id = s.instance_id
                      /\ o.step_order < s.step_order
                      /\ o.status = "pending"

\* the step is not the lowest-order PENDING step of its instance
NotCurrent(s) == s.status # "pending" \/ LowerPending(s)

\* the caller is the step's explicit approver or, without one, holds its role
Authorized(actor, s) ==
    \E u \in Users : u.id = actor /\ CanUserActionStep(u, s)

DirectorNeverBeforeRo ==
    \A i \in instances :
        (HasStep(i.id, 1) /\ HasStep(i.id, 2)) =>
            ~ /\ StepOfOrder(i.id, 1).status = "pending"
              /\ StepOfOrder(i.id, 2).status \in {"approved", "rejected"}

LeavesPendingInOrder ==
    \A s \in steps :
        (s.status = "pending" /\ LowerPending(s)) => s \in steps'

\* C3 as stated: a step leaves PENDING only as the lowest-order PENDING step
\* of its instance, the Director step is never APPROVED or REJECTED while the
\* RO step is PENDING, and every approve or reject aimed at a step that is
\* not the current one fails with VALIDATION_ERROR and changes nothing.
C3_Original ==
    [][/\ LeavesPendingInOrder
       /\ DirectorNeverBeforeRo'
       /\ \A t \in MainTenants, s \in steps, actor \in Approvers :
             ( /\ NotCurrent(s)
               /\ \/ ApproveStep(t, s.instance_id, s.id, actor)
                  \/ RejectStep(t, s.instance_id, s.id, actor) )
             => /\ last'.code = "VALIDATION_ERROR"
                /\ UNCHANGED WorkflowTables
      ]_vars

\* C3, amended: as C3, but a refused approve or reject of a step that is not
\* the current one answers VALIDATION_ERROR when the step is not PENDING or
\* the caller is authorized for it, and UNAUTHORIZED_ROLE when the step is
\* PENDING and the caller is not authorized for it; nothing changes.
C3_OrderEnforced ==
    [][/\ LeavesPendingInOrder
       /\ DirectorNeverBeforeRo'
       /\ \A t \in MainTenants, s \in steps, actor \in Approvers :
             ( /\ NotCurrent(s)
               /\ \/ ApproveStep(t, s.instance_id, s.id, actor)
                  \/ RejectStep(t, s.instance_id, s.id, actor) )
             => /\ last'.code = IF s.status = "pending" /\ ~Authorized(actor, s)
                                THEN "UNAUTHORIZED_ROLE"
                                ELSE "VALIDATION_ERROR"
                /\ UNCHANGED WorkflowTables
      ]_vars

\* the Director has just tried to approve the Director step ahead of the RO
\* and was refused with VALIDATION_ERROR: both steps are still PENDING
C3_Witness ==
    /\ last = Result("approve", "VALIDATION_ERROR", 0)
    /\ actionLog = {}
    /\ \E i \in instances :
           /\ HasStep(i.id, 1) /\ HasStep(i.id, 2)
           /\ StepOfOrder(i.id, 1).status = "pending"
           /\ StepOfOrder(i.id, 2).status = "pending"
           /\ Authorized("u2", StepOfOrder(i.id, 2))

InstanceSteps(i) == {s \in steps : s.instance_id = i.id}
Finished(S) == \A s \in S : s.status \in {"approved", "skipped"}

\* C4: an instance is APPROVED if and only if each of its steps is APPROVED
\* or SKIPPED; an instance becomes APPROVED only by a successful approve that
\* leaves it no PENDING step, such an approve of the last PENDING step of a
\* PENDING instance does move it to APPROVED, and an approve of the RO step
\* while the Director step is PENDING leaves the instance PENDING.
C4_ApprovedIffAllSteps ==
    [][/\ \A i \in instances' :
             (i.status = "approved") <=>
                 Finished({s \in steps' : s.instance_id = i.id})
       /\ \A i \in instances :
             \A j \in instances' :
                (j.id = i.id /\ i.status # "approved" /\ j.status = "approved")
                => /\ last' = Result("approve", Ok, 0)
                   /\ \E s \in InstanceSteps(i) :
                         /\ s.status = "pending"
                         /\ Finished(InstanceSteps(i) \ {s})
       /\ \A t \in MainTenants, s \in steps, actor \in Approvers :
             ( /\ ApproveStep(t, s.instance_id, s.id, actor)
               /\ last'.code = Ok )
             => \A i \in instances : i.id = s.instance_id =>
                   \E j \in instances' :
                      /\ j.id = i.id
                      /\ j.status =
                            IF Finished(InstanceSteps(i) \ {s})
                            THEN "approved" ELSE i.status
      ]_vars

\* both steps were approved one after the other and the instance is APPROVED
C4_Witness ==
    /\ last = Result("approve", Ok, 0)
    /\ \E i \in instances :
           /\ i.status = "approved"
           /\ HasStep(i.id, 1) /\ HasStep(i.id, 2)
           /\ StepOfOrder(i.id, 1).status = "approved"
           /\ StepOfOrder(i.id, 2).status = "approved"
           /\ Cardinality({r \in actionLog : r.instance_id = i.id}) = 2

Signed(a) == a.employee_signed_at # NULL

\* C8: a signed actual line (signed by sign or by proxy_sign) stays in the
\* table as it is - same actual_fte_percent, same signature - whatever is
\* called next, and an update or delete of it fails with VALIDATION_ERROR,
\* also after its approval instance was rejected and after its period was
\* locked and unlocked again.
C8_SignedImmutable ==
    [][\A a \in actuals : Signed(a) =>
          /\ a \in actuals'
          /\ \A t \in MainTenants, fte \in FteInputs :
                (t = a.tenant_id /\ ActualUpdate(t, a.id, fte))
                => last'.code = "VALIDATION_ERROR"
          /\ \A t \in MainTenants :
                (t = a.tenant_id /\ ActualDelete(t, a.id))
                => last'.code = "VALIDATION_ERROR"
      ]_vars

\* a signed line whose instance was rejected and whose period was locked and
\* unlocked again, just after a delete of it was refused
C8_Witness ==
    /\ last = Result("actual_delete", "VALIDATION_ERROR", 0)
    /\ \E a \in actuals :
           /\ Signed(a)
           /\ \E i \in instances : i.subject_id = a.id /\ i.status = "rejected"
           /\ \E q \in periods : /\ q.id = a.period_id
                                 /\ q.status = "open"
                                 /\ q.lock_reason = "vacation"

\* the approvers create_approval_for_actuals resolves from the master data
ResolvedRo == IF org.cost_center THEN org.ro_user_id ELSE NULL
ResolvedDirector == IF org.cost_center THEN org.director ELSE NULL

\* the rows a first signature of line a adds: one PENDING instance with an RO
\* step (order 1, PENDING) and a Director step (order 2), the latter SKIPPED
\* exactly when both approvers are resolved and the same user
InstanceCreatedFor(a) ==
    /\ Cardinality(instances' \ instances) = 1
    /\ Cardinality(steps' \ steps) = 2
    /\ steps \subseteq steps'
    /\ \E i \in instances' \ instances :
          /\ i.status = "pending"
          /\ i.subject_type = "actuals"
          /\ i.subject_id = a.id
          /\ \E ro, dir \in steps' \ steps :
                /\ ro.instance_id = i.id /\ dir.instance_id = i.id
                /\ ro.step_order = 1 /\ ro.step_name = "RO"
                /\ ro.status = "pending"
                /\ ro.approver_id = ResolvedRo
                /\ dir.step_order = 2 /\ dir.step_name = "Director"
                /\ dir.approver_id = ResolvedDirector
                /\ dir.status =
                      IF ResolvedRo = ResolvedDirector /\ ResolvedRo # NULL
                      THEN "skipped" ELSE "pending"

\* C9: the first signature of an actual line creates its approval instance
\* PENDING with exactly two steps, RO (order 1, PENDING) and Director
\* (order 2); the Director step is SKIPPED if and only if the resolved RO and
\* the resolved Director are the same, non-null user, otherwise PENDING; with
\* a SKIPPED Director step one approve of the RO step moves the instance to
\* APPROVED.
C9_InstanceShape ==
    [][\A t \in MainTenants :
         /\ \A a \in actuals, actor \in UserIds, reason \in Reasons :
               ( /\ ~\E i \in instances : i.subject_id = a.id
                 /\ \/ ActualSign(t, a.id, actor)
                    \/ ActualProxySign(t, a.id, reason, actor)
                 /\ last'.code = Ok )
               => InstanceCreatedFor(a)
         /\ \A s \in steps, actor \in Approvers :
               ( /\ s.step_order = 1
                 /\ HasStep(s.instance_id, 2)
                 /\ StepOfOrder(s.instance_id, 2).status = "skipped"
                 /\ ApproveStep(t, s.instance_id, s.id, actor)
                 /\ last'.code = Ok )
               => \A j \in instances' :
                     j.id = s.instance_id => j.status = "approved"
      ]_vars

\* RO and Director are the same user: the Director step was created SKIPPED
\* and the one approve of the RO step has moved the instance to APPROVED
C9_Witness ==
    /\ ResolvedRo = ResolvedDirector /\ ResolvedRo # NULL
    /\ \E i \in instances :
           /\ i.status = "approved"
           /\ StepOfOrder(i.id, 1).status = "approved"
           /\ StepOfOrder(i.id, 2).status = "skipped"
           /\ Cardinality({r \in actionLog : r.instance_id = i.id}) = 1

TerminalInstance == {"approved", "rejected"}
TerminalStep == {"approved", "rejected", "skipped"}

\* C10: an instance that is APPROVED or REJECTED and a step that is APPROVED,
\* REJECTED or SKIPPED keep that status whatever is called next, and an
\* approve or reject of a step that is not PENDING fails with
\* VALIDATION_ERROR.
C10_TerminalStatuses ==
    [][/\ \A i \in instances : i.status \in TerminalInstance =>
             \E j \in instances' : j.id = i.id /\ j.status = i.status
       /\ \A s \in steps : s.status \in TerminalStep =>
             \E z \in steps' : z.id = s.id /\ z.status = s.status
       /\ \A t \in MainTenants, s \in steps, actor \in Approvers :
             ( /\ s.status # "pending"
               /\ \/ ApproveStep(t, s.instance_id, s.id, actor)
                  \/ RejectStep(t, s.instance_id, s.id, actor) )
             => last'.code = "VALIDATION_ERROR"
      ]_vars

\* the RO rejected, the Director then approved the Director step: the
\* instance is still REJECTED, and a reject of the approved Director step
\* was just refused
C10_Witness ==
    /\ last = Result("reject", "VALIDATION_ERROR", 0)
    /\ \E i \in instances :
           /\ i.status = "rejected"
           /\ StepOfOrder(i.id, 1).status = "rejected"
           /\ StepOfOrder(i.id, 2).status = "approved"

\* C11: a reject of the current step by a caller authorized for it succeeds;
\* it sets that step to REJECTED and the instance to REJECTED in the same
\* request, adds exactly one ApprovalAction row (a reject of that step by the
\* caller), and leaves every other step row as it was: a PENDING Director
\* step stays PENDING, a SKIPPED one stays SKIPPED.
C11_RejectEffect ==
    [][\A t \in MainTenants, s \in steps, actor \in Approvers :
          ( /\ ~NotCurrent(s)
            /\ Authorized(actor, s)
            /\ RejectStep(t, s.instance_id, s.id, actor) )
          => /\ last' = Result("reject", Ok, 0)
             /\ \E z \in steps' : z.id = s.id /\ z.status = "rejected"
             /\ \A j \in instances' :
                   j.id = s.instance_id => j.status = "rejected"
             /\ \E j \in instances' : j.id = s.instance_id
             /\ actionLog \subseteq actionLog'
             /\ Cardinality(actionLog' \ actionLog) = 1
             /\ \A r \in actionLog' \ actionLog :
                   /\ r.action = "reject" /\ r.step_id = s.id
                   /\ r.instance_id = s.instance_id /\ r.performed_by = actor
             /\ \A o \in steps : o.id # s.id => o \in steps'
             /\ Cardinality(steps') = Cardinality(steps)
      ]_vars

\* the RO has just rejected the RO step: step and instance are REJECTED, the
\* Director step is still PENDING and the log holds the one reject
C11_Witness ==
    /\ last = Result("reject", Ok, 0)
    /\ \E i \in instances :
           /\ i.status = "rejected"
           /\ StepOfOrder(i.id, 1).status = "rejected"
           /\ StepOfOrder(i.id, 2).status = "pending"
           /\ {r.action : r \in {x \in actionLog : x.instance_id = i.id}}
                  = {"reject"}
           /\ Cardinality(actionLog) = 1

\* the caller is the explicit approver of the step or, the step having none,
\* a user whose role is the name of the step
MayAction(actor, s) ==
    \/ s.approver_id # NULL /\ s.approver_id = actor
    \/ /\ s.approver_id = NULL
       /\ \E u \in Users : u.id = actor /\ u.role = s.step_name

\* C12: an approve or reject of a PENDING step is refused with
\* UNAUTHORIZED_ROLE exactly when the caller is neither the step's explicit
\* approver nor, the step having no explicit approver, a holder of the role
\* the step is named after (RO, Director); a call refused so changes no step,
\* no instance and no ApprovalAction row.
C12_AuthorizedExactly ==
    [][\A t \in MainTenants, s \in steps, actor \in Approvers :
          ( /\ s.status = "pending"
            /\ \/ ApproveStep(t, s.instance_id, s.id, actor)
               \/ RejectStep(t, s.instance_id, s.id, actor) )
          => /\ (last'.code = "UNAUTHORIZED_ROLE") <=> ~MayAction(actor, s)
             /\ last'.code = "UNAUTHORIZED_ROLE" => UNCHANGED WorkflowTables
             /\ (MayAction(actor, s) /\ ~LowerPending(s)) => last'.code = Ok
      ]_vars

\* the RO step names the user u2 as its approver and is PENDING: an approve
\* of it by another user was just refused with UNAUTHORIZED_ROLE
C12_Witness ==
    /\ last = Result("approve", "UNAUTHORIZED_ROLE", 0)
    /\ actionLog = {}
    /\ \E s \in steps : /\ s.step_name = "RO" /\ s.status = "pending"
                         /\ s.approver_id = "u2"
    /\ \E u \in Users : u.id # "u2" /\ u.role = "RO"

-----------------------------------------------------------------------------
(* Signing: two actual lines of one month, signed by the employee or by proxy *)

SignIds == 1..MaxSignLines
SignFteInputs == {50}

NextSign ==
    \E t \in MainTenants :
        \/ \E y \in Years, m \in MainMonths :
              /\ Room(PeriodCreateCode(t, y, m), nextId.period, MaxPeriods)
              /\ PeriodCreate(t, y, m)
        \/ \E pid \in PeriodIds, actor \in FinanceActors : PeriodLock(t, pid, actor)
        \/ \E pid \in PeriodIds, reason \in Reasons : PeriodUnlock(t, pid, reason)
        \/ \E r \in MainResources, p \in Projects, y \in Years, m \in MainMonths,
              fte \in SignFteInputs :
              /\ Room(ActualCreateCode(t, r, p, y, m, fte),
                      nextId.actual, MaxSignLines)
              /\ ActualCreate(t, r, p, y, m, fte)
        \/ \E aid \in SignIds : ActualDelete(t, aid)
        \/ \E aid \in SignIds, actor \in EmployeeActors : ActualSign(t, aid, actor)
        \/ \E aid \in SignIds, reason \in Reasons, actor \in ProxyActors :
              ActualProxySign(t, aid, reason, actor)

SpecSign == InitActuals /\ [][NextSign]_vars

\* the approval instances whose subject is the actual line a
InstancesOfLine(tables, a) ==
    {i \in tables : i.subject_type = "actuals" /\ i.subject_id = a.id}

\* C13: with the requests handled one at a time, after every request each
\* signed actual line has exactly one approval instance (subject_type
\* actuals, subject_id the line) and each unsigned line has none; a sign or
\* proxy_sign of a line that is already signed fails with VALIDATION_ERROR
\* and adds no instance and no step.
C13_OneInstancePerSignedLine ==
    [][/\ \A a \in actuals' :
             Cardinality(InstancesOfLine(instances', a)) =
                 IF Signed(a) THEN 1 ELSE 0
       /\ \A t \in MainTenants, a \in actuals :
             Signed(a) =>
                /\ \A actor \in EmployeeActors :
                      ActualSign(t, a.id, actor)
                      => /\ last'.code = "VALIDATION_ERROR"
                         /\ UNCHANGED WorkflowTables
                /\ \A reason \in Reasons, actor \in ProxyActors :
                      ActualProxySign(t, a.id, reason, actor)
                      => /\ last'.code = "VALIDATION_ERROR"
                         /\ UNCHANGED WorkflowTables
      ]_vars

\* a line signed by proxy with its one instance beside an unsigned line with
\* none, just after a sign of the signed line by the employee was refused
C13_Witness ==
    /\ last = Result("actual_sign", "VALIDATION_ERROR", 0)
    /\ \E a, b \in actuals :
           /\ Signed(a) /\ a.is_proxy_signed
           /\ Cardinality(InstancesOfLine(instances, a)) = 1
           /\ ~Signed(b)
           /\ InstancesOfLine(instances, b) = {}
           /\ Cardinality(instances) = 1

\* the tables of lines, signatures and approvals: what lock and unlock leave
LineTables ==
    <<actuals, instances, steps, actionLog, demands, supplies, nextId>>

ValidActualFte == {0} \cup {5 * k : k \in 1..20}
ValidPlanFte == {5 * k : k \in 1..20}

\* what a request on a line of the month (y, m) needs beside an OPEN period
ActualCreateFits(t, r, p, y, m, fte) ==
    /\ fte \in ValidActualFte
    /\ ~\E a \in LinesOfMonth(t, r, y, m) : a.project_id = p
    /\ TotalOfMonth(t, r, y, m) + fte <= 100
ActualUpdateFits(t, a, fte) ==
    /\ ~Signed(a)
    /\ fte \in ValidActualFte
    /\ TotalOfMonth(t, a.resource_id, a.year, a.month)
           - a.actual_fte_percent + fte <= 100
DemandCreateFits(t, p, y, m, fte, r, ph, now) ==
    /\ (r = NULL) # (ph = NULL)
    /\ ph # NULL => y * 12 + m >= now.year * 12 + now.month + 4
    /\ fte \in ValidPlanFte
    /\ ~\E d \in demands :
           /\ d.tenant_id = t /\ d.project_id = p /\ d.year = y /\ d.month = m
           /\ d.resource_id = r /\ d.placeholder_id = ph
SupplyCreateFits(t, r, y, m, fte) ==
    /\ fte \in ValidPlanFte
    /\ ~\E x \in supplies :
           /\ x.tenant_id = t /\ x.resource_id = r /\ x.year = y /\ x.month = m

\* the requests on lines of the month (y, m) that meet `before` are answered
\* as `after` asks: before(code, fits) is a condition on the answer the
\* request would get now and on whether it fits, after(code, fits) one on the
\* answer it would get in the next state
LineRequestsCarryOver(t, y, m, before(_, _), after(_, _)) ==
    /\ \A r \in MainResources, p \in PlanProjects, fte \in FteInputs :
          before(ActualCreateCode(t, r, p, y, m, fte),
                 ActualCreateFits(t, r, p, y, m, fte))
          => after(ActualCreateCode(t, r, p, y, m, fte)',
                   ActualCreateFits(t, r, p, y, m, fte)')
    /\ \A a \in actuals : (a.tenant_id = t /\ a.year = y /\ a.month = m) =>
          /\ \A fte \in FteInputs :
                before(ActualUpdateCode(t, a.id, fte),
                       ActualUpdateFits(t, a, fte))
                => after(ActualUpdateCode(t, a.id, fte)',
                         ActualUpdateFits(t, a, fte)')
          /\ before(ActualDeleteCode(t, a.id), ~Signed(a))
             => after(ActualDeleteCode(t, a.id)', ~Signed(a))
          /\ before(ActualSignCode(t, a.id), ~Signed(a))
             => after(ActualSignCode(t, a.id)', ~Signed(a))
    /\ \A p \in PlanProjects, fte \in PlanFteInputs,
          r \in MainResources \cup {NULL}, ph \in Placeholders \cup {NULL},
          now \in Clocks :
          before(DemandCreateCode(t, p, y, m, fte, r, ph, now),
                 DemandCreateFits(t, p, y, m, fte, r, ph, now))
          => after(DemandCreateCode(t, p, y, m, fte, r, ph, now)',
                   DemandCreateFits(t, p, y, m, fte, r, ph, now)')
    /\ \A d \in demands : (d.tenant_id = t /\ d.year = y /\ d.month = m) =>
          /\ \A fte \in PlanFteInputs :
                before(DemandUpdateCode(t, d.id, fte), fte \in ValidPlanFte)
                => after(DemandUpdateCode(t, d.id, fte)', fte \in ValidPlanFte)
          /\ before(DemandDeleteCode(t, d.id), TRUE)
             => after(DemandDeleteCode(t, d.id)', TRUE)
    /\ \A r \in MainResources, fte \in PlanFteInputs :
          before(SupplyCreateCode(t, r, y, m, fte),
                 SupplyCreateFits(t, r, y, m, fte))
          => after(SupplyCreateCode(t, r, y, m, fte)',
                   SupplyCreateFits(t, r, y, m, fte)')
    /\ \A x \in supplies : (x.tenant_id = t /\ x.year = y /\ x.month = m) =>
          /\ \A fte \in PlanFteInputs :
                before(SupplyUpdateCode(t, x.id, fte), fte \in ValidPlanFte)
                => after(SupplyUpdateCode(t, x.id, fte)', fte \in ValidPlanFte)
          /\ before(SupplyDeleteCode(t, x.id), TRUE)
             => after(SupplyDeleteCode(t, x.id)', TRUE)

AcceptedNow(code, fits) == code = Ok
StillFits(code, fits) == fits
FitsNow(code, fits) == fits
AcceptedNext(code, fits) == code = Ok

\* C14: a lock of an OPEN period and an unlock (with a reason) of a LOCKED
\* one always succeed, so a period can go OPEN, LOCKED, OPEN any number of
\* times; both leave every line, signature and approval row alone; a create,
\* update, delete or sign on a line of the period that was accepted before
\* the lock still fits while the period is LOCKED, and every request that
\* fits is accepted once the period is unlocked.
C14_UnlockRestores ==
    [][\A t \in MainTenants, q \in periods :
          /\ \A actor \in FinanceActors :
                (q.status = "open" /\ PeriodLock(t, q.id, actor))
                => /\ last'.code = Ok
                   /\ \E z \in periods' : z.id = q.id /\ z.status = "locked"
                   /\ UNCHANGED LineTables
                   /\ LineRequestsCarryOver(t, q.year, q.month,
                                            AcceptedNow, StillFits)
          /\ \A reason \in Reasons \ {"", " "} :
                (q.status = "locked" /\ PeriodUnlock(t, q.id, reason))
                => /\ last'.code = Ok
                   /\ \E z \in periods' : z.id = q.id /\ z.status = "open"
                   /\ UNCHANGED LineTables
                   /\ LineRequestsCarryOver(t, q.year, q.month,
                                            FitsNow, AcceptedNext)
      ]_vars

\* a period that was locked and unlocked again, holding a demand and a supply
\* line, just after a sign of an actual line of it was accepted
C14_Witness ==
    /\ last = Result("actual_sign", Ok, 0)
    /\ \E q \in periods :
           /\ q.status = "open" /\ q.locked_at # NULL
           /\ q.lock_reason = "vacation"
           /\ \E a \in actuals : a.period_id = q.id /\ Signed(a)
           /\ \E d \in demands : d.period_id = q.id
           /\ \E x \in supplies : x.period_id = q.id

-----------------------------------------------------------------------------
(* Demand lines: two months, resources and placeholders, two clocks *)

DemandIds == 1..MaxDemands
\* resource_id and placeholder_id as the clients send them: a key, None or ""
ResourceArgs == MainResources \cup {NULL, ""}
PlaceholderArgs == Placeholders \cup {NULL, ""}

NextDemand ==
    \E t \in MainTenants :
        \/ \E y \in Years, m \in Months :
              /\ Room(PeriodCreateCode(t, y, m), nextId.period, MaxPeriods)
              /\ PeriodCreate(t, y, m)
        \/ \E pid \in PeriodIds, actor \in FinanceActors : PeriodLock(t, pid, actor)
        \/ \E pid \in PeriodIds, reason \in Reasons : PeriodUnlock(t, pid, reason)
        \/ \E p \in PlanProjects, y \in Years, m \in Months,
              fte \in PlanFteInputs, r \in ResourceArgs, ph \in PlaceholderArgs,
              now \in Clocks :
              /\ Room(DemandCreateCode(t, p, y, m, fte, r, ph, now),
                      nextId.demand, MaxDemands)
              /\ DemandCreate(t, p, y, m, fte, r, ph, now)
        \/ \E did \in DemandIds, fte \in PlanFteInputs : DemandUpdate(t, did, fte)
        \/ \E did \in DemandIds : DemandDelete(t, did)

SpecDemand == InitActuals /\ [][NextDemand]_vars

\* exactly one of resource_id and placeholder_id of the row is non-null
ExactlyOneSet(d) == (d.resource_id # NULL) # (d.placeholder_id # NULL)

\* the period of the month exists and is OPEN
OpenPeriod(t, y, m) ==
    \E q \in periods : /\ q.tenant_id = t /\ q.year = y /\ q.month = m
                       /\ q.status = "open"

\* every stored demand line names exactly one of resource and placeholder,
\* and no request changes which one a stored line names
DemandXorKept ==
    /\ \A d \in demands' : ExactlyOneSet(d)
    /\ \A d \in demands : \A e \in demands' :
          e.id = d.id => /\ e.resource_id = d.resource_id
                         /\ e.placeholder_id = d.placeholder_id

\* a create that is refused stores nothing
RefusedCreateStoresNothing ==
    (last'.op = "demand_create" /\ last'.code # Ok) => demands' = demands

-----------------------------------------------------------------------------
(* FTE values: one demand, one supply and one actual line of one month *)

FteIds == 1..MaxFteLines
FteValues == {-5, 0, 5, 7, 100, 105}

NextFte ==
    \E t \in MainTenants :
        \/ \E y \in Years, m \in MainMonths :
              /\ Room(PeriodCreateCode(t, y, m), nextId.period, MaxPeriods)
              /\ PeriodCreate(t, y, m)
        \/ \E pid \in PeriodIds, actor \in FinanceActors : PeriodLock(t, pid, actor)
        \/ \E pid \in PeriodIds, reason \in Reasons : PeriodUnlock(t, pid, reason)
        \/ \E p \in PlanProjects, y \in Years, m \in MainMonths,
              fte \in FteValues, r \in MainResources \cup {NULL},
              ph \in Placeholders \cup {NULL}, now \in Clocks :
              /\ Room(DemandCreateCode(t, p, y, m, fte, r, ph, now),
                      nextId.demand, MaxFteLines)
              /\ DemandCreate(t, p, y, m, fte, r, ph, now)
        \/ \E did \in FteIds, fte \in FteValues : DemandUpdate(t, did, fte)
        \/ \E r \in MainResources, y \in Years, m \in MainMonths,
              fte \in FteValues :
              /\ Room(SupplyCreateCode(t, r, y, m, fte),
                      nextId.supply, MaxFteLines)
              /\ SupplyCreate(t, r, y, m, fte)
        \/ \E sid \in FteIds, fte \in FteValues : SupplyUpdate(t, sid, fte)
        \/ \E r \in MainResources, p \in PlanProjects, y \in Years,
              m \in MainMonths, fte \in FteValues :
              /\ Room(ActualCreateCode(t, r, p, y, m, fte),
                      nextId.actual, MaxFteLines)
              /\ ActualCreate(t, r, p, y, m, fte)
        \/ \E aid \in FteIds, fte \in FteValues : ActualUpdate(t, aid, fte)
        \/ \E aid \in FteIds, actor \in EmployeeActors : ActualSign(t, aid, actor)

SpecFte == InitActuals /\ [][NextFte]_vars

\* every stored line carries a valid value, and a refused create or update
\* of a line leaves the three tables of lines as they are
FteKept ==
    /\ \A d \in demands' : d.fte_percent \in ValidPlanFte
    /\ \A x \in supplies' : x.fte_percent \in ValidPlanFte
    /\ \A a \in actuals' : a.actual_fte_percent \in ValidActualFte
    /\ ( /\ last'.op \in {"demand_create", "demand_update", "supply_create",
                          "supply_update", "actual_create", "actual_update"}
         /\ last'.code # Ok )
       => UNCHANGED <<demands, supplies, actuals>>

\* 0 is accepted as the value of an actual line once the other checks pass
ZeroForActuals ==
    \A t \in MainTenants :
       /\ \A r \in MainResources, p \in PlanProjects, y \in Years,
             m \in MainMonths :
             (OpenPeriod(t, y, m) /\ ~ActualDuplicate(t, r, p, y, m))
             => ActualCreateCode(t, r, p, y, m, 0) = Ok
       /\ \A a \in actuals :
             (~Signed(a) /\ OpenPeriod(t, a.year, a.month))
             => ActualUpdateCode(t, a.id, 0) = Ok

\* the answers to creates and updates that carry an invalid value:
\* answer(code, reached) is asked of the answer and of whether the request
\* passes every check made before the value is looked at
InvalidFteAnswers(answer(_, _)) ==
    \A t \in MainTenants :
       /\ \A p \in PlanProjects, y \in Years, m \in MainMonths,
             fte \in FteValues \ ValidPlanFte, r \in MainResources \cup {NULL},
             ph \in Placeholders \cup {NULL}, now \in Clocks :
             answer(DemandCreateCode(t, p, y, m, fte, r, ph, now),
                    /\ OpenPeriod(t, y, m)
                    /\ (r = NULL) # (ph = NULL)
                    /\ ph # NULL =>
                          y * 12 + m >= now.year * 12 + now.month + 4)
       /\ \A d \in demands, fte \in FteValues \ ValidPlanFte :
             answer(DemandUpdateCode(t, d.id, fte),
                    OpenPeriod(t, d.year, d.month))
       /\ \A r \in MainResources, y \in Years, m \in MainMonths,
             fte \in FteValues \ ValidPlanFte :
             answer(SupplyCreateCode(t, r, y, m, fte), OpenPeriod(t, y, m))
       /\ \A x \in supplies, fte \in FteValues \ ValidPlanFte :
             answer(SupplyUpdateCode(t, x.id, fte),
                    OpenPeriod(t, x.year, x.month))
       /\ \A r \in MainResources, p \in PlanProjects, y \in Years,
             m \in MainMonths, fte \in FteValues \ ValidActualFte :
             answer(ActualCreateCode(t, r, p, y, m, fte), OpenPeriod(t, y, m))
       /\ \A a \in actuals, fte \in FteValues \ ValidActualFte :
             answer(ActualUpdateCode(t, a.id, fte),
                    ~Signed(a) /\ OpenPeriod(t, a.year, a.month))

\* FTE_INVALID when the value is reached, else the code of an earlier check
FteInvalidWhenReached(code, reached) ==
    IF reached THEN code = "FTE_INVALID"
    ELSE code \in {"NOT_FOUND", "PERIOD_LOCKED", "VALIDATION_ERROR",
                   "DEMAND_XOR", "PLACEHOLDER_BLOCKED_4MFC"}

MonthIndex(y, m) == y * 12 + m
IndexInFourMonths(now) == now.year * 12 + now.month + 4

-----------------------------------------------------------------------------
(* The period guards: PeriodService.require_open and check_period_not_locked *)

\* PeriodService.require_open: raises for a LOCKED period and returns for an
\* OPEN one and for a month without a period
RequireOpenCode(t, y, m) ==
    IF /\ PeriodByYearMonth(t, y, m) # {}
       /\ (CHOOSE p \in PeriodByYearMonth(t, y, m) : TRUE).status = "locked"
    THEN "PERIOD_LOCKED"
    ELSE Ok

RequireOpen(t, y, m) ==
    /\ last' = Result("require_open", RequireOpenCode(t, y, m), 0)
    /\ UNCHANGED <<periods, actuals, instances, steps, actionLog, demands,
                   supplies, snapshots, snapLines, notifLogs, activeUsers,
                   runAudit, org, inflight, holidays, nextId>>

\* check_period_not_locked, which PeriodLockGuard.check calls
CheckPeriodNotLockedCode(t, y, m) ==
    IF /\ PeriodByYearMonth(t, y, m) # {}
       /\ (CHOOSE p \in PeriodByYearMonth(t, y, m) : TRUE).status = "locked"
    THEN "PERIOD_LOCKED"
    ELSE Ok

CheckPeriodNotLocked(t, y, m) ==
    /\ last' = Result("check_period_not_locked",
                      CheckPeriodNotLockedCode(t, y, m), 0)
    /\ UNCHANGED <<periods, actuals, instances, steps, actionLog, demands,
                   supplies, snapshots, snapLines, notifLogs, activeUsers,
                   runAudit, org, inflight, holidays, nextId>>

NextGuard ==
    \E t \in MainTenants :
        \/ \E y \in Years, m \in Months :
              /\ Room(PeriodCreateCode(t, y, m), nextId.period, MaxPeriods)
              /\ PeriodCreate(t, y, m)
        \/ \E pid \in PeriodIds, actor \in FinanceActors : PeriodLock(t, pid, actor)
        \/ \E pid \in PeriodIds, reason \in Reasons : PeriodUnlock(t, pid, reason)
        \/ \E y \in Years, m \in Months : RequireOpen(t, y, m)
        \/ \E y \in Years, m \in Months : CheckPeriodNotLocked(t, y, m)
        \/ \E r \in MainResources, p \in Projects, y \in Years, m \in Months,
              fte \in SignFteInputs :
              /\ Room(ActualCreateCode(t, r, p, y, m, fte),
                      nextId.actual, MaxSignLines)
              /\ ActualCreate(t, r, p, y, m, fte)

SpecGuard == InitActuals /\ [][NextGuard]_vars

\* what a period check is to answer for a month
RequireOpenAnswer(t, y, m) ==
    IF PeriodByYearMonth(t, y, m) = {} THEN "NOT_FOUND"
    ELSE IF Locked(t, y, m) THEN "PERIOD_LOCKED" ELSE Ok

\* C18: require_open, check_period_not_locked and the services' period check
\* all answer PERIOD_LOCKED for a LOCKED period and NOT_FOUND for a month
\* without a period, and every stored actual line is dated in a month that
\* has a period.
C18_PeriodChecks ==
    /\ \A t \in MainTenants, y \in Years, m \in Months :
          /\ RequireOpenCode(t, y, m) = RequireOpenAnswer(t, y, m)
          /\ CheckPeriodNotLockedCode(t, y, m) = RequireOpenAnswer(t, y, m)
          /\ CheckPeriodOpen(t, y, m) = RequireOpenAnswer(t, y, m)
    /\ \A a \in actuals : PeriodByYearMonth(a.tenant_id, a.year, a.month) # {}

\* C19: a proxy sign, with a reason, of an unsigned actual line whose month's
\* period is LOCKED is answered PERIOD_LOCKED, leaves the line unsigned and
\* creates no approval instance.
C19_ProxySignLocked ==
    [][\A t \in MainTenants, aid \in SignIds, reason \in Reasons,
          actor \in ProxyActors :
          ( /\ ActualProxySign(t, aid, reason, actor)
            /\ Strip(reason) # ""
            /\ \E a \in ActualById(t, aid) :
                  /\ a.employee_signed_at = NULL
                  /\ Locked(t, a.year, a.month) )
          => /\ last'.code = "PERIOD_LOCKED"
             /\ UNCHANGED <<actuals, instances, steps>>]_vars

\* the subject actual line of the instance is dated in a LOCKED period
SubjectLocked(t, iid) ==
    \E i \in InstanceById(t, iid), a \in actuals :
        /\ i.subject_type = "actuals" /\ i.subject_id = a.id
        /\ a.tenant_id = t
        /\ Locked(t, a.year, a.month)

\* C20: an approve or reject, by a caller who may action it, of the current
\* PENDING step of an instance whose subject actual line is dated in a LOCKED
\* period is answered PERIOD_LOCKED and changes no step, no instance and
\* appends no ApprovalAction.
C20_StepActionLocked ==
    [][\A t \in MainTenants, iid \in LineIds, order \in {1, 2},
          actor \in Approvers :
          ( /\ \/ ApproveStep(t, iid, StepId(iid, order), actor)
               \/ RejectStep(t, iid, StepId(iid, order), actor)
            /\ SubjectLocked(t, iid)
            /\ \E s \in GetCurrentStep(iid), u \in GetUser(t, actor) :
                  /\ s.id = StepId(iid, order)
                  /\ CanUserActionStep(u, s) )
          => /\ last'.code = "PERIOD_LOCKED"
             /\ UNCHANGED <<steps, instances, actionLog>>]_vars

-----------------------------------------------------------------------------
(* Periods of two tenants: create, lock and unlock *)

PeriodTenants == {"t1", "t2"}

NextPeriod ==
    \E t \in PeriodTenants :
        \/ \E y \in Years, m \in Months :
              /\ Room(PeriodCreateCode(t, y, m), nextId.period, MaxPeriods)
              /\ PeriodCreate(t, y, m)
        \/ \E pid \in PeriodIds, actor \in FinanceActors : PeriodLock(t, pid, actor)
        \/ \E pid \in PeriodIds, reason \in Reasons : PeriodUnlock(t, pid, reason)

SpecPeriod == InitActuals /\ [][NextPeriod]_vars

\* C21: there is at most one period per (tenant, year, month); a create for a
\* key without a period adds one OPEN period and nothing else, and a create
\* for a key that has a period, OPEN or LOCKED, is answered CONFLICT and
\* leaves the periods as they are.
C21_OnePeriodPerKey ==
    /\ [](\A p, q \in periods :
             (p.tenant_id = q.tenant_id /\ p.year = q.year /\ p.month = q.month)
             => p = q)
    /\ [][\A t \in PeriodTenants, y \in Years, m \in Months :
             PeriodCreate(t, y, m) =>
                IF \E p \in periods :
                      p.tenant_id = t /\ p.year = y /\ p.month = m
                THEN last'.code = "CONFLICT" /\ periods' = periods
                ELSE /\ last'.code = Ok
                     /\ periods \subseteq periods'
                     /\ \E n \in periods' \ periods :
                           /\ periods' = periods \cup {n}
                           /\ n.tenant_id = t /\ n.year = y /\ n.month = m
                           /\ n.status = "open"]_vars

\* a create was just refused with CONFLICT while a LOCKED period exists, and
\* the two tenants each have a period of the same month
C21_Witness ==
    /\ last = Result("period_create", "CONFLICT", 0)
    /\ \E p \in periods : p.status = "locked"
    /\ \E p, q \in periods :
          /\ p.tenant_id # q.tenant_id
          /\ p.year = q.year /\ p.month = q.month

\* the period with the id, as it is after the step
PeriodAfter(p) == {q \in periods' : q.id = p.id}

\* a status changes only from OPEN by a lock and from LOCKED by an unlock that
\* carries a reason
StatusChangesByLockUnlock ==
    \A p \in periods : \A q \in PeriodAfter(p) :
        q.status # p.status =>
           \/ /\ p.status = "open" /\ q.status = "locked"
              /\ last' = Result("period_lock", Ok, 0)
           \/ /\ p.status = "locked" /\ q.status = "open"
              /\ last' = Result("period_unlock", Ok, 0)
              /\ q.lock_reason \notin {NULL, "", " "}

\* C22: the status of a period changes only by a lock from OPEN and by an
\* unlock with a non-blank reason from LOCKED; a lock of a LOCKED period, an
\* unlock of an OPEN period and an unlock with an empty or whitespace reason
\* are answered VALIDATION_ERROR and leave every period, its status,
\* locked_at and locked_by included, as it is.
C22_LockUnlockOnly ==
    [][/\ StatusChangesByLockUnlock
       /\ \A t \in PeriodTenants, pid \in PeriodIds, actor \in FinanceActors :
             ( /\ PeriodLock(t, pid, actor)
               /\ \E p \in PeriodById(t, pid) : p.status = "locked" )
             => last'.code = "VALIDATION_ERROR" /\ periods' = periods
       /\ \A t \in PeriodTenants, pid \in PeriodIds, reason \in Reasons :
             ( /\ PeriodUnlock(t, pid, reason)
               /\ \/ reason \in {"", " "}
                  \/ \E p \in PeriodById(t, pid) : p.status = "open" )
             => last'.code = "VALIDATION_ERROR" /\ periods' = periods]_vars

\* an unlock was just refused with VALIDATION_ERROR while one period is LOCKED
\* and another, unlocked before, is OPEN and carries the reason of its unlock
C22_Witness ==
    /\ last = Result("period_unlock", "VALIDATION_ERROR", 0)
    /\ \E p \in periods : p.status = "locked"
    /\ \E p \in periods : p.status = "open" /\ p.lock_reason = "vacation"

-----------------------------------------------------------------------------
(* ApprovalsService.get_inbox *)

\* variant: instances are listed whatever their status
GetInboxAnyStatus(t, actor) ==
    IF GetUser(t, actor) = {} THEN {}
    ELSE LET user == CHOOSE u \in GetUser(t, actor) : TRUE
         IN {i \in instances :
                /\ i.tenant_id = t
                /\ \E s \in GetCurrentStep(i.id) : CanUserActionStep(user, s)}

\* get_inbox: the PENDING instances of the caller's tenant whose first
\* PENDING step in step_order the caller may action; nothing for a caller
\* without a User row
GetInbox(t, actor) ==
    IF GetUser(t, actor) = {} THEN {}
    ELSE LET user == CHOOSE u \in GetUser(t, actor) : TRUE
         IN {i \in instances :
                /\ i.tenant_id = t /\ i.status = "pending"
                /\ \E s \in GetCurrentStep(i.id) : CanUserActionStep(user, s)}

\* the request: the answer carries the number of instances listed
Inbox(t, actor) ==
    /\ last' = Result("inbox", Ok, Cardinality(GetInbox(t, actor)))
    /\ UNCHANGED <<periods, actuals, instances, steps, actionLog, demands,
                   supplies, snapshots, snapLines, notifLogs, activeUsers,
                   runAudit, org, inflight, holidays, nextId>>

InboxIds == 1..MaxInboxLines
InboxCallers == UserIds \cup {"u9"}

NextInbox ==
    \E t \in MainTenants :
        \/ \E y \in Years, m \in MainMonths :
              /\ Room(PeriodCreateCode(t, y, m), nextId.period, MaxPeriods)
              /\ PeriodCreate(t, y, m)
        \/ \E r \in MainResources, p \in Projects, y \in Years, m \in MainMonths,
              fte \in SignFteInputs :
              /\ Room(ActualCreateCode(t, r, p, y, m, fte),
                      nextId.actual, MaxInboxLines)
              /\ ActualCreate(t, r, p, y, m, fte)
        \/ \E aid \in InboxIds, actor \in EmployeeActors : ActualSign(t, aid, actor)
        \/ \E iid \in InboxIds, order \in {1, 2}, actor \in Approvers :
              ApproveStep(t, iid, StepId(iid, order), actor)
        \/ \E iid \in InboxIds, order \in {1, 2}, actor \in Approvers :
              RejectStep(t, iid, StepId(iid, order), actor)
        \/ \E actor \in InboxCallers : Inbox(t, actor)

SpecInbox == Init /\ [][NextInbox]_vars

\* the lowest-order PENDING steps of the instance
LowestPending(i) ==
    {s \in steps : /\ s.instance_id = i.id /\ s.status = "pending"
                   /\ \A o \in steps :
                         (o.instance_id = i.id /\ o.status = "pending")
                         => s.step_order <= o.step_order}

\* C23: the inbox of a user is exactly the set of PENDING instances of the
\* tenant whose lowest-order PENDING step the user may action, as its
\* explicit approver or, the step having none, by role; the user's approve of
\* that step of an instance listed would be accepted; an APPROVED or REJECTED
\* instance is in no inbox.
C23_InboxExact ==
    \A t \in MainTenants, actor \in InboxCallers :
        /\ GetInbox(t, actor) =
              {i \in instances :
                  /\ i.tenant_id = t /\ i.status = "pending"
                  /\ \E s \in LowestPending(i) : MayAction(actor, s)}
        /\ \A i \in GetInbox(t, actor) :
              /\ i.status \notin {"approved", "rejected"}
              /\ \E s \in LowestPending(i) :
                    StepActionCode(t, i.id, s.id, actor) = Ok

\* an inbox request was just answered with one instance while another
\* instance is REJECTED with a step still PENDING
C23_Witness ==
    /\ last = Result("inbox", Ok, 1)
    /\ \E i \in instances :
          /\ i.status = "rejected"
          /\ \E s \in steps : s.instance_id = i.id /\ s.status = "pending"
    /\ \E i \in instances : i.status = "pending"

-----------------------------------------------------------------------------
(* Uniqueness of lines: creates of demand, supply and actual lines *)

UniqueIds == 1..MaxUniqueLines
UniqueFteInputs == {7, 50}

NextUnique ==
    \E t \in MainTenants :
        \/ \E y \in Years, m \in MainMonths :
              /\ Room(PeriodCreateCode(t, y, m), nextId.period, MaxPeriods)
              /\ PeriodCreate(t, y, m)
        \/ \E pid \in PeriodIds, actor \in FinanceActors : PeriodLock(t, pid, actor)
        \/ \E pid \in PeriodIds, reason \in Reasons : PeriodUnlock(t, pid, reason)
        \/ \E p \in Projects, y \in Years, m \in MainMonths,
              fte \in UniqueFteInputs, r \in MainResources \cup {NULL},
              ph \in Placeholders \cup {NULL}, now \in Clocks :
              /\ Room(DemandCreateCode(t, p, y, m, fte, r, ph, now),
                      nextId.demand, MaxUniqueLines)
              /\ DemandCreate(t, p, y, m, fte, r, ph, now)
        \/ \E r \in Resources, y \in Years, m \in MainMonths,
              fte \in UniqueFteInputs :
              /\ Room(SupplyCreateCode(t, r, y, m, fte),
                      nextId.supply, MaxUniqueLines)
              /\ SupplyCreate(t, r, y, m, fte)
        \/ \E r \in MainResources, p \in Projects, y \in Years,
              m \in MainMonths, fte \in UniqueFteInputs :
              /\ Room(ActualCreateCode(t, r, p, y, m, fte),
                      nextId.actual, MaxUniqueLines)
              /\ ActualCreate(t, r, p, y, m, fte)

SpecUnique == InitActuals /\ [][NextUnique]_vars

\* the keys of the three kinds of line; a supply line carries no project
DemandKey(d) ==
    <<d.tenant_id, d.project_id, d.resource_id, d.placeholder_id,
      d.year, d.month>>
SupplyKey(x) == <<x.tenant_id, x.resource_id, x.year, x.month>>
ActualKey(a) == <<a.tenant_id, a.resource_id, a.project_id, a.year, a.month>>

\* no two lines of a table share a key
KeysUnique ==
    /\ \A d, e \in demands : DemandKey(d) = DemandKey(e) => d = e
    /\ \A x, z \in supplies : SupplyKey(x) = SupplyKey(z) => x = z
    /\ \A a, b \in actuals : ActualKey(a) = ActualKey(b) => a = b

\* the answer to a create that would duplicate the key of a stored line:
\* CONFLICT when the request passes the checks made before the look-up
DuplicateAnswers ==
    /\ \A t \in MainTenants, p \in Projects, y \in Years, m \in MainMonths,
          fte \in UniqueFteInputs, r \in MainResources \cup {NULL},
          ph \in Placeholders \cup {NULL}, now \in Clocks :
          ( /\ (r = NULL) # (ph = NULL)
            /\ \E d \in demands :
                  DemandKey(d) = <<t, p, r, ph, y, m>>
            /\ OpenPeriod(t, y, m) /\ fte \in ValidPlanFte
            /\ ph # NULL => MonthIndex(y, m) >= IndexInFourMonths(now) )
          => DemandCreateCode(t, p, y, m, fte, r, ph, now) = "CONFLICT"
    /\ \A t \in MainTenants, r \in Resources, y \in Years, m \in MainMonths,
          fte \in UniqueFteInputs :
          ( /\ \E x \in supplies : SupplyKey(x) = <<t, r, y, m>>
            /\ OpenPeriod(t, y, m) /\ fte \in ValidPlanFte )
          => SupplyCreateCode(t, r, y, m, fte) = "CONFLICT"
    /\ \A t \in MainTenants, r \in MainResources, p \in Projects, y \in Years,
          m \in MainMonths, fte \in UniqueFteInputs :
          ( /\ \E a \in actuals : ActualKey(a) = <<t, r, p, y, m>>
            /\ OpenPeriod(t, y, m) /\ fte \in ValidActualFte )
          => ActualCreateCode(t, r, p, y, m, fte) = "CONFLICT"

\* a create answered CONFLICT, or aimed at a key that is taken, stores and
\* changes nothing
DuplicateStoresNothing ==
    /\ ( last'.op \in {"demand_create", "supply_create", "actual_create"}
         /\ last'.code # Ok )
       => UNCHANGED <<demands, supplies, actuals>>
    /\ \A d \in demands' \ demands :
          \A e \in demands : DemandKey(e) # DemandKey(d)
    /\ \A x \in supplies' \ supplies :
          \A z \in supplies : SupplyKey(z) # SupplyKey(x)
    /\ \A a \in actuals' \ actuals :
          \A b \in actuals : ActualKey(b) # ActualKey(a)

-----------------------------------------------------------------------------
(* Publishing the lines of one of two periods *)

CopyIds == 1..MaxCopyLines
CopyFteInputs == {40}
CopyFteUpdates == {60}

NextCopy ==
    \E t \in MainTenants :
        \/ \E y \in Years, m \in Months :
              /\ Room(PeriodCreateCode(t, y, m), nextId.period, MaxPeriods)
              /\ PeriodCreate(t, y, m)
        \/ \E pid \in PeriodIds, actor \in FinanceActors : PeriodLock(t, pid, actor)
        \/ \E p \in PlanProjects, y \in Years, m \in Months,
              fte \in CopyFteInputs, r \in MainResources \cup {NULL},
              ph \in Placeholders \cup {NULL}, now \in PubClocks :
              /\ Room(DemandCreateCode(t, p, y, m, fte, r, ph, now),
                      nextId.demand, MaxCopyLines)
              /\ DemandCreate(t, p, y, m, fte, r, ph, now)
        \/ \E did \in CopyIds, fte \in CopyFteUpdates : DemandUpdate(t, did, fte)
        \/ \E r \in MainResources, y \in Years, m \in MainMonths,
              fte \in CopyFteInputs :
              /\ Room(SupplyCreateCode(t, r, y, m, fte),
                      nextId.supply, MaxCopyLines)
              /\ SupplyCreate(t, r, y, m, fte)
        \/ \E r \in MainResources, p \in PlanProjects, y \in Years,
              m \in MainMonths, fte \in CopyFteInputs :
              /\ Room(ActualCreateCode(t, r, p, y, m, fte),
                      nextId.actual, MaxCopyLines)
              /\ ActualCreate(t, r, p, y, m, fte)
        \/ \E pid \in PeriodIds, actor \in FinanceActors :
              /\ Room(PublishSnapshotCode(t, pid), nextId.snapshot, MaxSnapshots)
              /\ PublishSnapshot(t, pid, actor)

SpecCopy == InitActuals /\ [][NextCopy]_vars

\* the lines of a table dated in the month of the period
LinesOfPeriod(table, q) ==
    {x \in table : /\ x.tenant_id = q.tenant_id
                   /\ x.year = q.year /\ x.month = q.month}

\* every line of the set has exactly one copy of the type among the snapshot
\* lines, and the snapshot has no other line of the type
OneCopyEach(lines, type, sources, same(_, _)) ==
    /\ \A x \in sources :
          Cardinality({l \in lines : l.line_type = type /\ same(l, x)}) = 1
    /\ \A l \in lines :
          l.line_type = type => \E x \in sources : same(l, x)
    /\ Cardinality({l \in lines : l.line_type = type}) = Cardinality(sources)

SameDated(l, x) == l.year = x.year /\ l.month = x.month
CopyOfDemand(l, d) ==
    /\ SameDated(l, d) /\ l.fte_percent = d.fte_percent
    /\ l.project_id = d.project_id /\ l.resource_id = d.resource_id
    /\ l.placeholder_id = d.placeholder_id
CopyOfSupply(l, x) ==
    /\ SameDated(l, x) /\ l.fte_percent = x.fte_percent
    /\ l.resource_id = x.resource_id
CopyOfActual(l, a) ==
    /\ SameDated(l, a) /\ l.fte_percent = a.actual_fte_percent
    /\ l.project_id = a.project_id /\ l.resource_id = a.resource_id
CopyOfOop(l, o) ==
    /\ SameDated(l, o) /\ l.hours = o.hours /\ l.cost = o.total_cost
    /\ l.project_id = o.project_id /\ l.resource_id = o.resource_id

\* C25: a publish of an existing period, OPEN or LOCKED, adds one snapshot
\* whose lines are one copy of each demand, supply, actual and OoP line dated
\* in the period, as the line is at that time, with the line's type, year,
\* month and fte (hours and cost for OoP), and no other line; a publish of a
\* period id that does not exist is answered NOT_FOUND and adds nothing.
C25_PublishCopies ==
    [][\A t \in MainTenants, pid \in PeriodIds, actor \in FinanceActors :
          PublishSnapshot(t, pid, actor) =>
             IF PeriodById(t, pid) = {}
             THEN /\ last'.code = "NOT_FOUND"
                  /\ UNCHANGED <<snapshots, snapLines>>
             ELSE \E sn \in snapshots' \ snapshots :
                     LET q == CHOOSE x \in PeriodById(t, pid) : TRUE
                         lines == snapLines' \ snapLines
                     IN /\ last'.code = Ok
                        /\ snapshots' = snapshots \cup {sn}
                        /\ sn.period_id = pid
                        /\ snapLines \subseteq snapLines'
                        /\ \A l \in lines : l.snapshot_id = sn.id
                        /\ OneCopyEach(lines, "demand",
                                       LinesOfPeriod(demands, q), CopyOfDemand)
                        /\ OneCopyEach(lines, "supply",
                                       LinesOfPeriod(supplies, q), CopyOfSupply)
                        /\ OneCopyEach(lines, "actual",
                                       LinesOfPeriod(actuals, q), CopyOfActual)
                        /\ OneCopyEach(lines, "oop",
                                       LinesOfPeriod(OopLines, q), CopyOfOop)
                        /\ \A l \in lines :
                              l.line_type \in {"demand", "supply", "actual", "oop"}
      ]_vars

\* a snapshot of a LOCKED period, just published, holds a demand line with
\* its updated value, a supply, an actual and an OoP line
C25_Witness ==
    /\ last = Result("publish", Ok, 0)
    /\ \E sn \in snapshots, q \in periods :
          /\ q.id = sn.period_id /\ q.status = "locked"
          /\ {l.line_type : l \in LinesOfSnapshot(snapLines, sn.id)} =
                {"demand", "supply", "actual", "oop"}
          /\ \E l \in LinesOfSnapshot(snapLines, sn.id) :
                l.line_type = "demand" /\ l.fte_percent = 60

-----------------------------------------------------------------------------
(* NotificationsService: the dates of the phases *)

\* datetime.date: a date is held as its proleptic Gregorian ordinal, day 1
\* being 0001-01-01
IsLeap(year) == year % 4 = 0 /\ (year % 100 # 0 \/ year % 400 = 0)

DaysInMonth(year, month) ==
    IF month = 2 THEN (IF IsLeap(year) THEN 29 ELSE 28)
    ELSE IF month \in {4, 6, 9, 11} THEN 30 ELSE 31

RECURSIVE DaysBeforeMonth(_, _)
DaysBeforeMonth(year, month) ==
    IF month = 1 THEN 0
    ELSE DaysBeforeMonth(year, month - 1) + DaysInMonth(year, month - 1)

DaysBeforeYear(year) ==
    (year - 1) * 365 + (year - 1) \div 4 - (year - 1) \div 100
        + (year - 1) \div 400

\* date(year, month, day)
Date(year, month, day) ==
    DaysBeforeYear(year) + DaysBeforeMonth(year, month) + day

\* date.weekday(), Monday = 0
Weekday(d) == (d + 6) % 7

\* variant: the first occurrence is looked for without wrapping into the
\* next week
NthWeekdayOfMonthNoWrap(year, month, weekday, nth) ==
    LET first_day == Date(year, month, 1)
        offset == weekday - Weekday(first_day)
    IN first_day + offset + 7 * (nth - 1)

\* _nth_weekday_of_month
NthWeekdayOfMonth(year, month, weekday, nth) ==
    LET first_day == Date(year, month, 1)
        offset == (weekday - Weekday(first_day)) % 7
        first_occurrence == first_day + offset
    IN first_occurrence + 7 * (nth - 1)

\* the rules of _get_phase_base_date: (weekday, nth) of each phase
PhaseRule(phase) ==
    CASE phase = "PM_RO" -> <<4, 1>>
      [] phase = "Finance" -> <<4, 3>>
      [] phase = "Employee" -> <<0, 4>>
      [] phase = "RO_Director" -> <<1, 4>>

GetPhaseBaseDate(phase, year, month) ==
    NthWeekdayOfMonth(year, month, PhaseRule(phase)[1], PhaseRule(phase)[2])

\* a call of _nth_weekday_of_month; the answer carries the date
NthWeekday(year, month, weekday, nth) ==
    /\ last' = Result("nth_weekday_of_month", Ok,
                      NthWeekdayOfMonth(year, month, weekday, nth))
    /\ UNCHANGED <<periods, actuals, instances, steps, actionLog, demands,
                   supplies, snapshots, snapLines, notifLogs, activeUsers,
                   runAudit, org, inflight, holidays, nextId>>

\* a call of _get_phase_base_date; the answer carries the date
PhaseBaseDate(phase, year, month) ==
    /\ last' = Result("phase_base_date", Ok,
                      GetPhaseBaseDate(phase, year, month))
    /\ UNCHANGED <<periods, actuals, instances, steps, actionLog, demands,
                   supplies, snapshots, snapLines, notifLogs, activeUsers,
                   runAudit, org, inflight, holidays, nextId>>

CalendarYears == {2024, 2026}
CalendarMonths == 1..12
Weekdays == 0..6
Nths == 1..4

NextCalendar ==
    \/ \E y \in CalendarYears, m \in CalendarMonths, w \in Weekdays, n \in Nths :
          NthWeekday(y, m, w, n)
    \/ \E phase \in Phases, y \in CalendarYears, m \in CalendarMonths :
          PhaseBaseDate(phase, y, m)

SpecCalendar == InitActuals /\ [][NextCalendar]_vars

\* the day of the month of a date of the month
DayOfMonth(d, year, month) == d - Date(year, month, 1) + 1

\* C27: for every month, weekday w in 0..6 and n in 1..4 the n-th weekday of
\* the month is a date of that month whose weekday is w and whose day of the
\* month lies in 7(n-1)+1 .. 7n; the base dates of the phases PM_RO, Finance,
\* Employee and RO_Director of April 2026 are 2026-04-03, 2026-04-17,
\* 2026-04-27 and 2026-04-28, which are the 1st and 3rd Friday and the 4th
\* Monday and Tuesday.
C27_NthWeekday ==
    /\ \A y \in CalendarYears, m \in CalendarMonths, w \in Weekdays, n \in Nths :
          LET d == NthWeekdayOfMonth(y, m, w, n)
              day == DayOfMonth(d, y, m)
          IN /\ day >= 1 /\ day <= DaysInMonth(y, m)
             /\ Weekday(d) = w
             /\ day >= 7 * (n - 1) + 1 /\ day <= 7 * n
    /\ DayOfMonth(GetPhaseBaseDate("PM_RO", 2026, 4), 2026, 4) = 3
    /\ DayOfMonth(GetPhaseBaseDate("Finance", 2026, 4), 2026, 4) = 17
    /\ DayOfMonth(GetPhaseBaseDate("Employee", 2026, 4), 2026, 4) = 27
    /\ DayOfMonth(GetPhaseBaseDate("RO_Director", 2026, 4), 2026, 4) = 28
    /\ Date(2026, 4, 3) = 739709 /\ Weekday(739709) = 4
    /\ last.op = "phase_base_date" =>
          \E phase \in Phases, y \in CalendarYears, m \in CalendarMonths :
             /\ last.val = GetPhaseBaseDate(phase, y, m)
             /\ Weekday(last.val) = PhaseRule(phase)[1]

\* the base date of a phase of April 2026 was just answered: Tuesday the 28th
C27_Witness ==
    /\ last = Result("phase_base_date", Ok, Date(2026, 4, 28))
    /\ Weekday(last.val) = 1

-----------------------------------------------------------------------------
(* Holidays and NotificationsService._shift_to_next_workday *)

\* POST /admin/holidays: a second row of a date is refused by the unique
\* index when it carries the same time of day, and stored otherwise
HolidayCreate(t, d) ==
    /\ holidays' = holidays \cup {d}
    /\ IF d \in holidays
       THEN \E code \in {Ok, "INTERNAL_ERROR"} :
               last' = Result("holiday_create", code, 0)
       ELSE last' = Result("holiday_create", Ok, 0)
    /\ UNCHANGED <<periods, actuals, instances, steps, actionLog, demands,
                   supplies, snapshots, snapLines, notifLogs, activeUsers,
                   runAudit, org, inflight, nextId>>

\* DELETE /admin/holidays/{id}
HolidayDelete(t, d) ==
    /\ holidays' = holidays \ {d}
    /\ last' = Result("holiday_delete",
                      IF d \in holidays THEN Ok ELSE "NOT_FOUND", 0)
    /\ UNCHANGED <<periods, actuals, instances, steps, actionLog, demands,
                   supplies, snapshots, snapLines, notifLogs, activeUsers,
                   runAudit, org, inflight, nextId>>

\* the holidays loaded for the window base_date .. base_date + 14 days
HolidayDates(base_date) ==
    {h \in holidays : h >= base_date /\ h <= base_date + 14}

\* range(14), the safety limit of the loop
SafetyLimit == 14

\* variant: only Saturdays and Sundays are stepped over
RECURSIVE ShiftLoopWeekendsOnly(_, _, _)
ShiftLoopWeekendsOnly(deadline, left, holiday_dates) ==
    IF left = 0 THEN deadline
    ELSE IF Weekday(deadline) >= 5
         THEN ShiftLoopWeekendsOnly(deadline + 1, left - 1, holiday_dates)
         ELSE deadline

\* the loop: at most `left` more rounds, each stepping over one day
RECURSIVE ShiftLoop(_, _, _)
ShiftLoop(deadline, left, holiday_dates) ==
    IF left = 0 THEN deadline
    ELSE IF Weekday(deadline) >= 5 \/ deadline \in holiday_dates
         THEN ShiftLoop(deadline + 1, left - 1, holiday_dates)
         ELSE deadline

\* _shift_to_next_workday
ShiftToNextWorkday(base_date, tenant_id) ==
    IF tenant_id = NULL THEN base_date
    ELSE ShiftLoop(base_date, SafetyLimit, HolidayDates(base_date))

\* a call of _shift_to_next_workday; the answer carries the date
Shift(base_date, tenant_id) ==
    /\ last' = Result("shift_to_next_workday", Ok,
                      ShiftToNextWorkday(base_date, tenant_id))
    /\ UNCHANGED <<periods, actuals, instances, steps, actionLog, demands,
                   supplies, snapshots, snapLines, notifLogs, activeUsers,
                   runAudit, org, inflight, holidays, nextId>>

\* base dates Friday 2026-05-01 .. Thursday 2026-05-07; holidays on the
\* working days 2026-05-01 .. 2026-05-15
ShiftBases == {Date(2026, 5, d) : d \in 1..7}
HolidayInputs == {Date(2026, 5, d) : d \in {1} \cup 4..8 \cup 11..15}

NextShift ==
    \E t \in MainTenants :
        \/ \E d \in HolidayInputs : HolidayCreate(t, d)
        \/ \E d \in HolidayInputs : HolidayDelete(t, d)
        \/ \E base \in ShiftBases, tenant \in {t, NULL} : Shift(base, tenant)

SpecShift == InitActuals /\ [][NextShift]_vars

\* neither a Saturday or Sunday nor a holiday of the tenant
Workday(d) == Weekday(d) < 5 /\ d \notin holidays

\* the earliest working day on or after the date; one exists within three
\* weeks of every base date, the holidays ending on 2026-05-15
EarliestWorkday(base) ==
    CHOOSE d \in base..(base + 21) :
        Workday(d) /\ \A e \in base..(d - 1) : ~Workday(e)

-----------------------------------------------------------------------------
(* ConsolidationService.get_dashboard *)

RECURSIVE SumFtePercent(_)
SumFtePercent(S) ==
    IF S = {} THEN 0
    ELSE LET x == CHOOSE y \in S : TRUE
         IN x.fte_percent + SumFtePercent(S \ {x})

\* resource_demands: the demand lines of the period that name a resource
ResourceDemands(t, pid) ==
    {d \in demands : /\ d.tenant_id = t /\ d.period_id = pid
                     /\ d.resource_id # NULL}

\* the supply lines of the period
PeriodSupplies(t, pid) ==
    {x \in supplies : x.tenant_id = t /\ x.period_id = pid}

\* variant: the value of one demand line stands for the total
DemandByResourceOneLine(t, pid, r) ==
    LET lines == {d \in ResourceDemands(t, pid) : d.resource_id = r}
    IN IF lines = {} THEN 0 ELSE (CHOOSE d \in lines : TRUE).fte_percent

\* demand_by_resource[r]: the values of the lines added up
DemandByResource(t, pid, r) ==
    SumFtePercent({d \in ResourceDemands(t, pid) : d.resource_id = r})

\* supply_by_resource[r]: each line overwrites the entry, so the entry ends
\* as the value of the line read last, whichever the query returns last;
\* 0 is read for a resource without an entry
SupplyByResource(t, pid, r) ==
    LET lines == {x \in PeriodSupplies(t, pid) : x.resource_id = r}
    IN IF lines = {} THEN {0} ELSE {x.fte_percent : x \in lines}

AllResourceIds(t, pid) ==
    {d.resource_id : d \in ResourceDemands(t, pid)}
        \cup {x.resource_id : x \in PeriodSupplies(t, pid)}

GapStatus(gap) ==
    IF gap < 0 THEN "under" ELSE IF gap > 0 THEN "over" ELSE "balanced"

\* the resource rows of the answer
ResourceRows(t, pid) ==
    UNION {{[resource_id |-> r,
             demand_fte |-> DemandByResource(t, pid, r),
             supply_fte |-> supply,
             gap_fte |-> supply - DemandByResource(t, pid, r),
             status |-> GapStatus(supply - DemandByResource(t, pid, r))] :
               supply \in SupplyByResource(t, pid, r)} :
           r \in AllResourceIds(t, pid)}

\* variant: a total of 100 is flagged too
IsOverAllocatedFrom100(demand) == demand >= 100

IsOverAllocated(demand) == demand > 100

\* the over_allocations list of the answer
OverAllocations(t, pid) ==
    {[resource_id |-> row.resource_id, total_demand_fte |-> row.demand_fte] :
        row \in {x \in ResourceRows(t, pid) : IsOverAllocated(x.demand_fte)}}

GetDashboardCode(t, pid) ==
    IF PeriodById(t, pid) = {} THEN "NOT_FOUND" ELSE Ok

\* the request; the answer carries summary.over_allocations_count
GetDashboard(t, pid) ==
    /\ last' = Result("dashboard", GetDashboardCode(t, pid),
                      IF GetDashboardCode(t, pid) = Ok
                      THEN Cardinality(OverAllocations(t, pid)) ELSE 0)
    /\ UNCHANGED <<periods, actuals, instances, steps, actionLog, demands,
                   supplies, snapshots, snapLines, notifLogs, activeUsers,
                   runAudit, org, inflight, holidays, nextId>>

\* the demand lines asked for: 40 and 60 for r1 on p1 and 60 on p2 in
\* January, 60 on p2 in February, and 40 for a placeholder in January
DashDemandInputs ==
    {[project_id |-> "p1", month |-> 1, fte_percent |-> 40,
      resource_id |-> "r1", placeholder_id |-> NULL],
     [project_id |-> "p1", month |-> 1, fte_percent |-> 60,
      resource_id |-> "r1", placeholder_id |-> NULL],
     [project_id |-> "p2", month |-> 1, fte_percent |-> 60,
      resource_id |-> "r1", placeholder_id |-> NULL],
     [project_id |-> "p2", month |-> 2, fte_percent |-> 60,
      resource_id |-> "r1", placeholder_id |-> NULL],
     [project_id |-> "p1", month |-> 1, fte_percent |-> 40,
      resource_id |-> NULL, placeholder_id |-> "ph1"]}

NextDashboard ==
    \E t \in MainTenants :
        \/ \E y \in Years, m \in Months :
              /\ Room(PeriodCreateCode(t, y, m), nextId.period, MaxPeriods)
              /\ PeriodCreate(t, y, m)
        \/ \E d \in DashDemandInputs, y \in Years, now \in PubClocks :
              /\ Room(DemandCreateCode(t, d.project_id, y, d.month,
                                       d.fte_percent, d.resource_id,
                                       d.placeholder_id, now),
                      nextId.demand, MaxDashLines)
              /\ DemandCreate(t, d.project_id, y, d.month, d.fte_percent,
                              d.resource_id, d.placeholder_id, now)
        \/ \E r \in MainResources, y \in Years, m \in Months :
              /\ Room(SupplyCreateCode(t, r, y, m, 60),
                      nextId.supply, MaxDashLines)
              /\ SupplyCreate(t, r, y, m, 60)
        \/ \E pid \in PeriodIds : GetDashboard(t, pid)

SpecDashboard == InitActuals /\ [][NextDashboard]_vars

\* the demand lines of resource r, and its supply lines, dated in the month
\* of period q
DemandsOf(q, r) ==
    {d \in LinesOfPeriod(demands, q) : d.resource_id = r}
SuppliesOf(q, r) ==
    {x \in LinesOfPeriod(supplies, q) : x.resource_id = r}

-----------------------------------------------------------------------------
(* bulk_demand_lines and bulk_supply_lines *)

\* A bulk action is a record: action is the verb of the request, data the
\* schema its payload was parsed as, and the other fields are the payload.
\* A bulk run carries the rows the session has committed (stored), the
\* count of primary keys handed out (next), the outcome of every action
\* tried so far (codes) and whether the SAVEPOINT opened by begin_nested is
\* still open (nested).

\* DemandService.create, update and delete as called for action a while the
\* committed demand lines are ds
BulkDemandCode(ds, t, a, now) ==
    IF a.action = "create" /\ a.data = "create"
    THEN IF CheckPeriodOpen(t, a.year, a.month) # Ok
         THEN CheckPeriodOpen(t, a.year, a.month)
         ELSE IF Truthy(a.resource_id) /\ Truthy(a.placeholder_id)
         THEN "DEMAND_XOR"
         ELSE IF ~Truthy(a.resource_id) /\ ~Truthy(a.placeholder_id)
         THEN "DEMAND_XOR"
         ELSE IF Truthy(a.placeholder_id) /\ IsWithin4Mfc(a.year, a.month, now)
         THEN "PLACEHOLDER_BLOCKED_4MFC"
         ELSE IF PlanFteInvalid(a.fte_percent) THEN "FTE_INVALID"
         ELSE IF a.project_id \notin Projects THEN "NOT_FOUND"
         ELSE IF Truthy(a.resource_id) /\ a.resource_id \notin Resources
         THEN "NOT_FOUND"
         ELSE IF Truthy(a.placeholder_id)
                 /\ a.placeholder_id \notin Placeholders
         THEN "NOT_FOUND"
         ELSE IF \E d \in ds : /\ d.tenant_id = t
                               /\ d.project_id = a.project_id
                               /\ d.year = a.year
                               /\ d.month = a.month
                               /\ IF Truthy(a.resource_id)
                                  THEN d.resource_id = a.resource_id
                                  ELSE d.placeholder_id = a.placeholder_id
         THEN "CONFLICT"
         ELSE IF ~CkDemandXor(a.resource_id, a.placeholder_id)
         THEN "INTERNAL_ERROR"
         ELSE Ok
    ELSE IF a.action = "update" /\ a.data = "update"
    THEN IF ~\E d \in ds : d.id = a.id /\ d.tenant_id = t THEN "NOT_FOUND"
         ELSE LET d == CHOOSE d \in ds : d.id = a.id /\ d.tenant_id = t
              IN IF CheckPeriodOpen(t, d.year, d.month) # Ok
                 THEN CheckPeriodOpen(t, d.year, d.month)
                 ELSE IF PlanFteInvalid(a.fte_percent) THEN "FTE_INVALID"
                 ELSE Ok
    ELSE IF a.action = "delete" /\ a.data = "delete"
    THEN IF ~\E d \in ds : d.id = a.id /\ d.tenant_id = t THEN "NOT_FOUND"
         ELSE LET d == CHOOSE d \in ds : d.id = a.id /\ d.tenant_id = t
              IN CheckPeriodOpen(t, d.year, d.month)
    ELSE "VALUE_ERROR"

\* the demand lines after action a, which passed its checks, was committed
BulkDemandStored(ds, next, t, a) ==
    IF a.action = "create"
    THEN ds \cup
         {[id |-> next + 1, tenant_id |-> t,
           period_id |->
               (CHOOSE q \in PeriodByYearMonth(t, a.year, a.month) : TRUE).id,
           project_id |-> a.project_id, resource_id |-> a.resource_id,
           placeholder_id |-> a.placeholder_id, year |-> a.year,
           month |-> a.month, fte_percent |-> a.fte_percent]}
    ELSE IF a.action = "update"
    THEN {IF d.id = a.id /\ d.tenant_id = t
          THEN [d EXCEPT !.fte_percent = a.fte_percent]
          ELSE d : d \in ds}
    ELSE {d \in ds : ~(d.id = a.id /\ d.tenant_id = t)}

\* the loop over the actions. Every service call ends in Session.commit,
\* which commits the outermost transaction and with it releases the
\* SAVEPOINT, so what a successful action wrote is permanent before the
\* next action is tried. A failing action raises before it has written
\* anything; with all_or_nothing the loop stops there, and the rollback of
\* the savepoint (when still open) and of the session undo nothing that was
\* committed.
RECURSIVE BulkDemandRun(_, _, _, _, _)
BulkDemandRun(run, t, actions, all_or_nothing, now) ==
    IF actions = <<>> THEN run
    ELSE LET a == Head(actions)
             code == BulkDemandCode(run.stored, t, a, now)
             tried == [run EXCEPT !.codes = Append(@, code)]
         IN IF code = Ok
            THEN BulkDemandRun(
                     [tried EXCEPT
                         !.stored = BulkDemandStored(run.stored, run.next, t, a),
                         !.next = IF a.action = "create" THEN @ + 1 ELSE @,
                         !.nested = FALSE],
                     t, Tail(actions), all_or_nothing, now)
            ELSE IF all_or_nothing
            THEN [tried EXCEPT
                     !.stored = IF run.nested THEN run.start ELSE run.stored,
                     !.nested = FALSE]
            ELSE BulkDemandRun(tried, t, Tail(actions), all_or_nothing, now)

\* the number of actions that did not pass their checks
Errors(codes) == Cardinality({i \in 1..Len(codes) : codes[i] # Ok})

\* the code of the first action that failed, Ok when none did
FirstError(codes) ==
    IF Errors(codes) = 0 THEN Ok
    ELSE codes[CHOOSE i \in 1..Len(codes) :
                   /\ codes[i] # Ok
                   /\ \A j \in 1..(i - 1) : codes[j] = Ok]

\* POST /demand-lines/bulk; the answer lists status error for every action
\* of the list when all_or_nothing is set and an action failed, and else
\* one result per action
BulkDemandLines(t, actions, all_or_nothing, now) ==
    LET run == BulkDemandRun([stored |-> demands, start |-> demands,
                              next |-> nextId.demand, codes |-> <<>>,
                              nested |-> all_or_nothing],
                             t, actions, all_or_nothing, now)
        failed == all_or_nothing /\ Errors(run.codes) > 0
    IN /\ demands' = run.stored
       /\ nextId' = [nextId EXCEPT !.demand = run.next]
       /\ last' = Result("bulk_demand",
                         IF failed THEN FirstError(run.codes) ELSE Ok,
                         IF failed THEN Len(actions) ELSE Errors(run.codes))
       /\ UNCHANGED <<periods, actuals, instances, steps, actionLog, supplies,
                      snapshots, snapLines, notifLogs, activeUsers,
                      runAudit, org, inflight, holidays>>

\* SupplyService.create, update and delete as called for action a while the
\* committed supply lines are xs. The payload of a create is handed over
\* with its project_id, a keyword SupplyService.create does not take, so
\* the call raises TypeError before the service runs.
BulkSupplyCode(xs, t, a) ==
    IF a.action = "create" /\ a.data = "create" THEN "TYPE_ERROR"
    ELSE IF a.action = "update" /\ a.data = "update"
    THEN IF ~\E x \in xs : x.id = a.id /\ x.tenant_id = t THEN "NOT_FOUND"
         ELSE LET x == CHOOSE x \in xs : x.id = a.id /\ x.tenant_id = t
              IN IF CheckPeriodOpen(t, x.year, x.month) # Ok
                 THEN CheckPeriodOpen(t, x.year, x.month)
                 ELSE IF PlanFteInvalid(a.fte_percent) THEN "FTE_INVALID"
                 ELSE Ok
    ELSE IF a.action = "delete" /\ a.data = "delete"
    THEN IF ~\E x \in xs : x.id = a.id /\ x.tenant_id = t THEN "NOT_FOUND"
         ELSE LET x == CHOOSE x \in xs : x.id = a.id /\ x.tenant_id = t
              IN CheckPeriodOpen(t, x.year, x.month)
    ELSE "VALUE_ERROR"

\* the supply lines after action a, which passed its checks, was committed
BulkSupplyStored(xs, t, a) ==
    IF a.action = "update"
    THEN {IF x.id = a.id /\ x.tenant_id = t
          THEN [x EXCEPT !.fte_percent = a.fte_percent]
          ELSE x : x \in xs}
    ELSE {x \in xs : ~(x.id = a.id /\ x.tenant_id = t)}

RECURSIVE BulkSupplyRun(_, _, _, _)
BulkSupplyRun(run, t, actions, all_or_nothing) ==
    IF actions = <<>> THEN run
    ELSE LET a == Head(actions)
             code == BulkSupplyCode(run.stored, t, a)
             tried == [run EXCEPT !.codes = Append(@, code)]
         IN IF code = Ok
            THEN BulkSupplyRun(
                     [tried EXCEPT
                         !.stored = BulkSupplyStored(run.stored, t, a),
                         !.nested = FALSE],
                     t, Tail(actions), all_or_nothing)
            ELSE IF all_or_nothing
            THEN [tried EXCEPT
                     !.stored = IF run.nested THEN run.start ELSE run.stored,
                     !.nested = FALSE]
            ELSE BulkSupplyRun(tried, t, Tail(actions), all_or_nothing)

\* POST /supply-lines/bulk
BulkSupplyLines(t, actions, all_or_nothing) ==
    LET run == BulkSupplyRun([stored |-> supplies, start |-> supplies,
                              codes |-> <<>>, nested |-> all_or_nothing],
                             t, actions, all_or_nothing)
        failed == all_or_nothing /\ Errors(run.codes) > 0
    IN /\ supplies' = run.stored
       /\ last' = Result("bulk_supply",
                         IF failed THEN FirstError(run.codes) ELSE Ok,
                         IF failed THEN Len(actions) ELSE Errors(run.codes))
       /\ UNCHANGED <<periods, actuals, instances, steps, actionLog, demands,
                      snapshots, snapLines, notifLogs, activeUsers,
                      runAudit, org, inflight, holidays, nextId>>

BulkIds == 1..MaxBulkLines
BulkClocks == {[year |-> 2025, month |-> 9]}

BulkAction(action, data, id, p, r, fte) ==
    [action |-> action, data |-> data, id |-> id, project_id |-> p,
     resource_id |-> r, placeholder_id |-> NULL, year |-> 2026, month |-> 1,
     fte_percent |-> fte]

\* the actions of the requests: creates of a line of 50 for r1 on either
\* project, updates to 60 and to 7, deletes, and a delete whose payload was
\* parsed as an update
BulkActionInputs ==
    {BulkAction("create", "create", 0, p, "r1", 50) : p \in Projects}
    \cup {BulkAction("update", "update", id, NULL, NULL, fte) :
             id \in BulkIds, fte \in {60, 7}}
    \cup {BulkAction("delete", "delete", id, NULL, NULL, 0) : id \in BulkIds}
    \cup {BulkAction("delete", "update", 1, NULL, NULL, 60)}

RECURSIVE SeqsUpTo(_, _)
SeqsUpTo(S, n) ==
    IF n = 0 THEN {<<>>}
    ELSE SeqsUpTo(S, n - 1)
         \cup {Append(q, x) : q \in SeqsUpTo(S, n - 1), x \in S}

BulkRequests == SeqsUpTo(BulkActionInputs, MaxBulkActions)

\* the number of creates of a list
Creates(actions) ==
    Cardinality({i \in 1..Len(actions) : actions[i].action = "create"})

NextBulk ==
    \E t \in MainTenants :
        \/ \E y \in Years, m \in MainMonths :
              /\ Room(PeriodCreateCode(t, y, m), nextId.period, MaxPeriods)
              /\ PeriodCreate(t, y, m)
        \/ \E pid \in PeriodIds, actor \in FinanceActors : PeriodLock(t, pid, actor)
        \/ \E pid \in PeriodIds, reason \in Reasons : PeriodUnlock(t, pid, reason)
        \/ \E r \in MainResources, y \in Years, m \in MainMonths :
              /\ Room(SupplyCreateCode(t, r, y, m, 50),
                      nextId.supply, MaxBulkLines)
              /\ SupplyCreate(t, r, y, m, 50)
        \/ \E actions \in BulkRequests, all_or_nothing \in BOOLEAN,
              now \in BulkClocks :
              /\ nextId.demand + Creates(actions) <= MaxBulkLines
              /\ BulkDemandLines(t, actions, all_or_nothing, now)
        \/ \E actions \in BulkRequests, all_or_nothing \in BOOLEAN :
              BulkSupplyLines(t, actions, all_or_nothing)

SpecBulk == InitActuals /\ [][NextBulk]_vars

\* some action of the list fails when the list is worked through
BulkDemandFails(t, actions, now) ==
    Errors(BulkDemandRun([stored |-> demands, start |-> demands,
                          next |-> nextId.demand, codes |-> <<>>,
                          nested |-> TRUE], t, actions, TRUE, now).codes) > 0
BulkSupplyFails(t, actions) ==
    Errors(BulkSupplyRun([stored |-> supplies, start |-> supplies,
                          codes |-> <<>>, nested |-> TRUE],
                         t, actions, TRUE).codes) > 0

\* C30: a bulk request on demand or supply lines with all_or_nothing set in
\* which some action fails leaves the stored lines as they were before the
\* request, and its answer reports every action of the list with status
\* error.
C30_BulkAtomic ==
    [][\A t \in MainTenants, actions \in BulkRequests :
          /\ \A now \in BulkClocks :
                (BulkDemandLines(t, actions, TRUE, now)
                 /\ BulkDemandFails(t, actions, now)) =>
                   /\ demands' = demands
                   /\ last'.val = Len(actions)
          /\ (BulkSupplyLines(t, actions, TRUE)
              /\ BulkSupplyFails(t, actions)) =>
                /\ supplies' = supplies
                /\ last'.val = Len(actions)]_vars

-----------------------------------------------------------------------------
(* Approval workflow: terminal instances and the action log *)

\* C34: once an instance is APPROVED or REJECTED no approve or reject on any
\* of its steps succeeds: no step of it changes status and no ApprovalAction
\* row is added for it.
C34_TerminalClosed ==
    [][\A i \in instances :
          i.status \in TerminalInstance =>
             /\ StepsOf(i.id)' = StepsOf(i.id)
             /\ {r \in actionLog' : r.instance_id = i.id}
                   = {r \in actionLog : r.instance_id = i.id}]_vars

\* the ApprovalAction rows that reference step s
RowsOf(log, s) == {r \in log : r.step_id = s.id}

\* C35: with the operations executed one at a time, a step has one
\* ApprovalAction row when it is APPROVED or REJECTED and none when it is
\* PENDING or SKIPPED; a successful approve or reject adds exactly one row,
\* a failed one adds none, and no row is ever changed or removed.
C35_ActionLog ==
    /\ [](\A s \in steps :
             Cardinality(RowsOf(actionLog, s))
                = IF s.status \in {"approved", "rejected"} THEN 1 ELSE 0)
    /\ [][/\ actionLog \subseteq actionLog'
          /\ (last'.op \in {"approve", "reject"} /\ last'.code = Ok) =>
                Cardinality(actionLog' \ actionLog) = 1
          /\ ~(last'.op \in {"approve", "reject"} /\ last'.code = Ok) =>
                actionLog' = actionLog]_vars

\* the RO step was approved and the Director step rejected, one row each,
\* and a further approve of the Director step was just refused
C35_Witness ==
    /\ last = Result("approve", "VALIDATION_ERROR", 0)
    /\ \E i \in instances :
          /\ StepOfOrder(i.id, 1).status = "approved"
          /\ StepOfOrder(i.id, 2).status = "rejected"
          /\ {r.action : r \in RowsOf(actionLog, StepOfOrder(i.id, 1))}
                = {"approve"}
          /\ {r.action : r \in RowsOf(actionLog, StepOfOrder(i.id, 2))}
                = {"reject"}
    /\ Cardinality(actionLog) = 2

\* C36: the subject of every approval instance is an actual line that is
\* stored and signed, whatever was updated, deleted, signed, approved,
\* rejected, locked or unlocked before.
C36_SubjectSigned ==
    \A i \in instances :
        /\ i.subject_type = "actuals"
        /\ \E a \in actuals : /\ a.id = i.subject_id
                              /\ a.tenant_id = i.tenant_id
                              /\ Signed(a)

\* the delete of a signed line that is the subject of a rejected instance
\* was just refused
C36_Witness ==
    /\ last.op = "actual_delete" /\ last.code # Ok
    /\ \E i \in instances, a \in actuals :
          /\ i.status = "rejected"
          /\ a.id = i.subject_id /\ Signed(a)

-----------------------------------------------------------------------------
(* The period of a line: creates of lines in two months of two tenants *)

NextKeyed ==
    \E t \in PeriodTenants :
        \/ \E y \in Years, m \in Months :
              /\ Room(PeriodCreateCode(t, y, m), nextId.period, MaxPeriods)
              /\ PeriodCreate(t, y, m)
        \/ \E y \in Years, m \in Months, now \in PubClocks :
              /\ Room(DemandCreateCode(t, "p1", y, m, 50, "r1", NULL, now),
                      LinesInserted, MaxKeyedLines)
              /\ DemandCreate(t, "p1", y, m, 50, "r1", NULL, now)
        \/ \E y \in Years, m \in Months :
              /\ Room(SupplyCreateCode(t, "r1", y, m, 50),
                      LinesInserted, MaxKeyedLines)
              /\ SupplyCreate(t, "r1", y, m, 50)
        \/ \E y \in Years, m \in Months :
              /\ Room(ActualCreateCode(t, "r1", "p1", y, m, 50),
                      LinesInserted, MaxKeyedLines)
              /\ ActualCreate(t, "r1", "p1", y, m, 50)

SpecKeyed == InitActuals /\ [][NextKeyed]_vars

\* the lines of a table that carry the id of the period
LinesByPeriodId(table, q) ==
    {x \in table : x.tenant_id = q.tenant_id /\ x.period_id = q.id}

\* every line of the table names one period, and that period has the line's
\* tenant, year and month; selecting by period_id and selecting by year and
\* month give the same lines
PeriodKeyed(table) ==
    /\ \A x \in table :
          /\ Cardinality({q \in periods : q.id = x.period_id}) = 1
          /\ \A q \in periods :
                q.id = x.period_id =>
                   /\ q.tenant_id = x.tenant_id
                   /\ q.year = x.year /\ q.month = x.month
    /\ \A q \in periods : LinesByPeriodId(table, q) = LinesOfPeriod(table, q)

\* C37: the period_id of every demand, supply and actual line created
\* through the services is the id of the period that has the line's tenant,
\* year and month, so selecting lines by period_id selects exactly the lines
\* of that tenant, year and month.
C37_PeriodOfLine ==
    PeriodKeyed(demands) /\ PeriodKeyed(supplies) /\ PeriodKeyed(actuals)

\* one tenant has a line in January, another line is dated February, and
\* the two carry different period ids
C37_Witness ==
    /\ Cardinality(periods) = 2
    /\ \E d \in demands, a \in actuals :
          /\ d.month = 1 /\ a.month = 2
          /\ d.tenant_id = a.tenant_id
          /\ d.period_id # a.period_id

-----------------------------------------------------------------------------
(* The daily scheduler: function_app.notification_daily *)

\* NotificationsService.calculate_phase_deadline
CalculatePhaseDeadline(phase, year, month, tenant_id) ==
    ShiftToNextWorkday(GetPhaseBaseDate(phase, year, month), tenant_id)

\* function_app.get_due_phases: the phases whose deadline for the year and
\* month of today is today; today is datetime.utcnow().date(), held by its
\* year, month and day
GetDuePhases(today, tenant_id) ==
    {phase \in Phases :
        CalculatePhaseDeadline(phase, today.year, today.month, tenant_id)
            = Date(today.year, today.month, today.day)}

\* the place of a phase in function_app.PHASES
PhaseOrder(phase) ==
    CASE phase = "PM_RO" -> 1 [] phase = "Finance" -> 2
      [] phase = "Employee" -> 3 [] phase = "RO_Director" -> 4

\* the timer of 08:00 UTC: POST /notifications/run for every phase due today,
\* in the order of PHASES, for the year and month of today
NotificationDaily(t, today) ==
    LET y == today.year
        m == today.month
        due == GetDuePhases(today, t)
        fresh == {phase \in due : ExistingLogs(t, phase, y, m) = {}}
        RunId(phase) ==
            nextId.run
              + Cardinality({p \in fresh : PhaseOrder(p) <= PhaseOrder(phase)})
    IN /\ notifLogs' = notifLogs \cup
             {[tenant_id |-> t, phase |-> x[1], year |-> y, month |-> m,
               recipient_user_id |-> x[2].id, status |-> "sent",
               run_id |-> RunId(x[1])] :
                 x \in {z \in fresh \X activeUsers :
                           z[2] \in GetRecipientsForPhase(t, z[1])}}
       /\ runAudit' = runAudit \cup
             {[tenant_id |-> t, entity_id |-> RunId(phase), phase |-> phase,
               year |-> y, month |-> m,
               recipients_count |->
                   Cardinality(GetRecipientsForPhase(t, phase))] :
                 phase \in fresh}
       /\ nextId' = [nextId EXCEPT !.run = @ + Cardinality(fresh)]
       /\ last' = Result("notification_daily", Ok, Cardinality(due))
       /\ UNCHANGED <<periods, actuals, instances, steps, actionLog, demands,
                      supplies, snapshots, snapLines, activeUsers, org, inflight,
                      holidays>>

\* the last days of April 2026 as holidays, the timer on those days and on
\* the first of May
DailyHolidays == {Date(2026, 4, d) : d \in 27..30}
DailyMonths == {<<2026, 4>>, <<2026, 5>>}
DaysOfMonth(year, month) ==
    {[year |-> year, month |-> month, day |-> d] :
        d \in 1..DaysInMonth(year, month)}
DailyDays ==
    {today \in UNION {DaysOfMonth(ym[1], ym[2]) : ym \in DailyMonths} :
        \/ today.month = 4 /\ today.day >= 27
        \/ today.month = 5 /\ today.day = 1}

NextDaily ==
    \E t \in MainTenants :
        \/ \E d \in DailyHolidays : HolidayCreate(t, d)
        \/ \E d \in DailyHolidays : HolidayDelete(t, d)
        \/ \E today \in DailyDays :
              /\ nextId.run + Cardinality(GetDuePhases(today, t)) <= MaxRuns
              /\ NotificationDaily(t, today)

SpecDaily == InitActuals /\ [][NextDaily]_vars

\* the days of a month on which the timer runs a phase for that month
DaysRun(t, phase, year, month) ==
    {d \in DaysOfMonth(year, month) : phase \in GetDuePhases(d, t)}

\* C38: whatever the holidays, the daily timer runs every phase on exactly
\* one day for every month, also when the shift moves the deadline of the
\* phase past the end of the month.
C38_EveryPhaseOnce ==
    \A t \in MainTenants, ym \in DailyMonths, phase \in Phases :
        Cardinality(DaysRun(t, phase, ym[1], ym[2])) = 1

-----------------------------------------------------------------------------
(* Requests of several workers against one database: the 100% cap *)

\* ActualsService.create up to _check_100_percent_limit: the request of a
\* worker whose checks pass is in flight, holding the total it read
ActualCreateBegin(t, r, p, y, m, fte) ==
    /\ LET code == ActualCreateCode(t, r, p, y, m, fte)
           period == CHOOSE q \in PeriodByYearMonth(t, y, m) : TRUE
       IN IF code = Ok
          THEN /\ inflight' = inflight \cup
                     {[op |-> "actual_create", tenant_id |-> t, id |-> NoLine,
                       period_id |-> period.id, resource_id |-> r,
                       project_id |-> p, year |-> y, month |-> m,
                       fte |-> fte,
                       new_total |-> NewTotal(t, r, y, m, fte, NoLine)]}
               /\ UNCHANGED last
          ELSE /\ UNCHANGED inflight
               /\ last' = Result("actual_create", code,
                                 IF code = "ACTUALS_OVER_100"
                                 THEN NewTotal(t, r, y, m, fte, NoLine) ELSE 0)
    /\ UNCHANGED <<periods, actuals, instances, steps, actionLog, demands,
                   supplies, snapshots, snapLines, notifLogs, activeUsers,
                   runAudit, org, holidays, nextId>>

\* variant: the insert is made under a lock on the month, the cap read again
ActualCreateCommitLocked(q) ==
    /\ q \in inflight /\ q.op = "actual_create"
    /\ inflight' = inflight \ {q}
    /\ LET code ==
               IF ActualDuplicate(q.tenant_id, q.resource_id, q.project_id,
                                  q.year, q.month) THEN "INTERNAL_ERROR"
               ELSE Check100PercentLimit(q.tenant_id, q.resource_id, q.year,
                                         q.month, q.fte, NoLine)
       IN /\ actuals' =
                 IF code = Ok
                 THEN actuals \cup
                        {[id |-> nextId.actual + 1, tenant_id |-> q.tenant_id,
                          period_id |-> q.period_id,
                          resource_id |-> q.resource_id,
                          project_id |-> q.project_id,
                          year |-> q.year, month |-> q.month,
                          actual_fte_percent |-> q.fte,
                          employee_signed_at |-> NULL,
                          employee_signed_by |-> NULL,
                          is_proxy_signed |-> FALSE]}
                 ELSE actuals
          /\ nextId' = IF code = Ok
                       THEN [nextId EXCEPT !.actual = @ + 1] ELSE nextId
          /\ last' = Result("actual_create", code, 0)
    /\ UNCHANGED <<periods, instances, steps, actionLog, demands, supplies,
                   snapshots, snapLines, notifLogs, activeUsers, runAudit,
                   org, holidays>>

\* ActualsService.create from db.add to db.commit: the INSERT of a request in
\* flight; it fails on the unique index ix_actual_unique alone
ActualCreateCommit(q) ==
    /\ q \in inflight /\ q.op = "actual_create"
    /\ inflight' = inflight \ {q}
    /\ LET code ==
               IF ActualDuplicate(q.tenant_id, q.resource_id, q.project_id,
                                  q.year, q.month) THEN "INTERNAL_ERROR"
               ELSE Ok
       IN /\ actuals' =
                 IF code = Ok
                 THEN actuals \cup
                        {[id |-> nextId.actual + 1, tenant_id |-> q.tenant_id,
                          period_id |-> q.period_id,
                          resource_id |-> q.resource_id,
                          project_id |-> q.project_id,
                          year |-> q.year, month |-> q.month,
                          actual_fte_percent |-> q.fte,
                          employee_signed_at |-> NULL,
                          employee_signed_by |-> NULL,
                          is_proxy_signed |-> FALSE]}
                 ELSE actuals
          /\ nextId' = IF code = Ok
                       THEN [nextId EXCEPT !.actual = @ + 1] ELSE nextId
          /\ last' = Result("actual_create", code, 0)
    /\ UNCHANGED <<periods, instances, steps, actionLog, demands, supplies,
                   snapshots, snapLines, notifLogs, activeUsers, runAudit,
                   org, holidays>>

\* ActualsService.update up to _check_100_percent_limit
ActualUpdateBegin(t, aid, fte) ==
    /\ LET code == ActualUpdateCode(t, aid, fte)
           a == TheActual(t, aid)
       IN IF code = Ok
          THEN /\ inflight' = inflight \cup
                     {[op |-> "actual_update", tenant_id |-> t, id |-> aid,
                       period_id |-> a.period_id,
                       resource_id |-> a.resource_id,
                       project_id |-> a.project_id, year |-> a.year,
                       month |-> a.month, fte |-> fte,
                       new_total |-> NewTotal(t, a.resource_id, a.year,
                                              a.month, fte, a.id)]}
               /\ UNCHANGED last
          ELSE /\ UNCHANGED inflight
               /\ last' = Result("actual_update", code,
                                 IF code = "ACTUALS_OVER_100"
                                 THEN NewTotal(t, a.resource_id, a.year,
                                               a.month, fte, a.id)
                                 ELSE 0)
    /\ UNCHANGED <<periods, actuals, instances, steps, actionLog, demands,
                   supplies, snapshots, snapLines, notifLogs, activeUsers,
                   runAudit, org, holidays, nextId>>

\* ActualsService.update from the assignment to db.commit: the UPDATE of the
\* row by its primary key
ActualUpdateCommit(q) ==
    /\ q \in inflight /\ q.op = "actual_update"
    /\ inflight' = inflight \ {q}
    /\ actuals' = {IF a.id = q.id /\ a.tenant_id = q.tenant_id
                   THEN [a EXCEPT !.actual_fte_percent = q.fte]
                   ELSE a : a \in actuals}
    /\ last' = Result("actual_update", Ok, 0)
    /\ UNCHANGED <<periods, instances, steps, actionLog, demands, supplies,
                   snapshots, snapLines, notifLogs, activeUsers, runAudit,
                   org, holidays, nextId>>

RaceResources == {"r1"}
RaceFteInputs == {40, 60}

NextRace ==
    \E t \in MainTenants :
        \/ \E y \in Years, m \in MainMonths :
              /\ Room(PeriodCreateCode(t, y, m), nextId.period, MaxPeriods)
              /\ PeriodCreate(t, y, m)
        \/ \E r \in RaceResources, p \in Projects, y \in Years,
              m \in MainMonths, fte \in RaceFteInputs :
              /\ ActualCreateCode(t, r, p, y, m, fte) = Ok =>
                    /\ Cardinality(inflight) < MaxInflight
                    /\ nextId.actual + Cardinality(inflight) < MaxActuals
              /\ ActualCreateBegin(t, r, p, y, m, fte)
        \/ \E q \in inflight : ActualCreateCommit(q)
        \/ \E aid \in ActualIds, fte \in RaceFteInputs :
              /\ ActualUpdateCode(t, aid, fte) = Ok =>
                    Cardinality(inflight) < MaxInflight
              /\ ActualUpdateBegin(t, aid, fte)
        \/ \E q \in inflight : ActualUpdateCommit(q)

SpecRace == InitActuals /\ [][NextRace]_vars

\* the total of the month of a request in flight
TotalOfRequest(q) ==
    TotalOfMonth(q.tenant_id, q.resource_id, q.year, q.month)

\* C31: create and update of an actual line read the total of the month and
\* write in separate steps without a lock on the month. Every request in
\* flight passed the cap on the total it read; its write is made whatever
\* has been committed since and is refused by the unique index alone; a
\* month's total passes 100 only by such a write.
C31_RacePastCap ==
    /\ [](\A q \in inflight : q.new_total <= 100)
    /\ [][\A q \in inflight :
            inflight' = inflight \ {q} =>
               /\ last'.code = Ok <=>
                     ~(/\ q.op = "actual_create"
                       /\ ActualDuplicate(q.tenant_id, q.resource_id,
                                          q.project_id, q.year, q.month))
               /\ last'.code = Ok =>
                     \E a \in actuals' :
                        /\ a.resource_id = q.resource_id
                        /\ a.project_id = q.project_id
                        /\ a.actual_fte_percent = q.fte
       ]_vars
    /\ [][\A t \in MainTenants, r \in RaceResources, y \in Years,
             m \in MainMonths :
             (TotalOfMonth(t, r, y, m) <= 100 /\ TotalOfMonth(t, r, y, m)' > 100)
             => \E q \in inflight : /\ inflight' = inflight \ {q}
                                    /\ q.resource_id = r
                                    /\ q.new_total < TotalOfMonth(t, r, y, m)'
       ]_vars

\* two creates of 60% for one resource and month on two projects, both
\* checked before either was written, both written: the month holds 120%
C31_Witness ==
    /\ inflight = {}
    /\ last = Result("actual_create", Ok, 0)
    /\ \E t \in MainTenants, r \in RaceResources, y \in Years, m \in Months :
           /\ Cardinality(LinesOfMonth(t, r, y, m)) = 2
           /\ TotalOfMonth(t, r, y, m) = 120

-----------------------------------------------------------------------------
(* Requests of several workers against one database: approval steps *)

\* the status an action gives its step
StatusOfAction(action) == IF action = "approve" THEN "approved" ELSE "rejected"

\* approve_step and reject_step up to db.commit: the request of a worker whose
\* checks pass is in flight; its session holds the step with the new status,
\* the new ApprovalAction and, for an approve that found every step of the
\* instance done and for every reject, the new status of the instance
StepActionBegin(t, iid, sid, actor, action) ==
    /\ LET code == StepActionCode(t, iid, sid, actor)
       IN IF code = Ok
          THEN /\ inflight' = inflight \cup
                     {[op |-> action, tenant_id |-> t, id |-> iid,
                       step_id |-> sid, actor |-> actor,
                       instance_status |->
                           IF action = "reject" THEN "rejected"
                           ELSE IF AllDone(iid, StepsAfter(iid, sid, actor,
                                                           "approved"))
                                THEN "approved" ELSE NULL]}
               /\ UNCHANGED last
          ELSE /\ UNCHANGED inflight
               /\ last' = Result(action, code, 0)
    /\ UNCHANGED <<periods, actuals, instances, steps, actionLog, demands,
                   supplies, snapshots, snapLines, notifLogs, activeUsers,
                   runAudit, org, holidays, nextId>>

\* variant: the step is written only while it is still PENDING
StepActionCommitIfPending(q) ==
    /\ q \in inflight /\ q.op \in {"approve", "reject"}
    /\ inflight' = inflight \ {q}
    /\ IF \E s \in StepById(q.id, q.step_id) : s.status = "pending"
       THEN /\ steps' = StepsAfter(q.id, q.step_id, q.actor,
                                   StatusOfAction(q.op))
            /\ actionLog' = actionLog \cup
                   {ActionRow(q.tenant_id, q.id, q.step_id, q.op, q.actor)}
            /\ instances' =
                   IF q.instance_status = NULL THEN instances
                   ELSE {IF i.id = q.id
                         THEN [i EXCEPT !.status = q.instance_status]
                         ELSE i : i \in instances}
            /\ last' = Result(q.op, Ok, 0)
       ELSE /\ UNCHANGED <<steps, actionLog, instances>>
            /\ last' = Result(q.op, "VALIDATION_ERROR", 0)
    /\ UNCHANGED <<periods, actuals, demands, supplies, snapshots, snapLines,
                   notifLogs, activeUsers, runAudit, org, holidays, nextId>>

\* db.commit of approve_step and reject_step: the UPDATE of the step by its
\* primary key, the INSERT of the action and the UPDATE of the instance
StepActionCommit(q) ==
    /\ q \in inflight /\ q.op \in {"approve", "reject"}
    /\ inflight' = inflight \ {q}
    /\ steps' = StepsAfter(q.id, q.step_id, q.actor, StatusOfAction(q.op))
    /\ actionLog' = actionLog \cup
           {ActionRow(q.tenant_id, q.id, q.step_id, q.op, q.actor)}
    /\ instances' =
           IF q.instance_status = NULL THEN instances
           ELSE {IF i.id = q.id THEN [i EXCEPT !.status = q.instance_status]
                 ELSE i : i \in instances}
    /\ last' = Result(q.op, Ok, 0)
    /\ UNCHANGED <<periods, actuals, demands, supplies, snapshots, snapLines,
                   notifLogs, activeUsers, runAudit, org, holidays, nextId>>

StepRaceActors == {"u1", "u2"}
StepRaceIds == {1}

NextStepRace ==
    \E t \in MainTenants :
        \/ \E y \in Years, m \in MainMonths :
              /\ Room(PeriodCreateCode(t, y, m), nextId.period, MaxPeriods)
              /\ PeriodCreate(t, y, m)
        \/ \E r \in MainResources, p \in PlanProjects, y \in Years,
              m \in MainMonths, fte \in SignFteInputs :
              /\ Room(ActualCreateCode(t, r, p, y, m, fte), nextId.actual,
                      MaxLines)
              /\ ActualCreate(t, r, p, y, m, fte)
        \/ \E aid \in StepRaceIds, actor \in EmployeeActors :
              ActualSign(t, aid, actor)
        \/ \E iid \in StepRaceIds, order \in {1, 2}, actor \in StepRaceActors,
              action \in {"approve", "reject"} :
              /\ StepActionCode(t, iid, StepId(iid, order), actor) = Ok =>
                    Cardinality(inflight) < MaxInflight
              /\ StepActionBegin(t, iid, StepId(iid, order), actor, action)
        \/ \E q \in inflight : StepActionCommit(q)

SpecStepRace == InitActuals /\ [][NextStepRace]_vars

\* the ApprovalAction row written last for a step
LastRowOf(log, s) ==
    CHOOSE r \in RowsOf(log, s) : r.id[2] = Cardinality(RowsOf(log, s))

\* C32: approve_step and reject_step check the step and write it in separate
\* steps without a lock. The commit of a request in flight is made whatever
\* has been committed since its checks: it adds one ApprovalAction row for
\* its step, sets the step to its own status and, when it writes the
\* instance, the instance too; so a step can hold several rows, and the step
\* carries the status of the request that committed last.
C32_DoubleAction ==
    /\ [](\A s \in steps :
             /\ s.status = "pending" <=> RowsOf(actionLog, s) = {}
             /\ RowsOf(actionLog, s) # {} =>
                   s.status = StatusOfAction(LastRowOf(actionLog, s).action))
    /\ [][\A q \in inflight :
            inflight' = inflight \ {q} =>
               /\ last' = Result(q.op, Ok, 0)
               /\ \E row \in actionLog' \ actionLog :
                     /\ actionLog' = actionLog \cup {row}
                     /\ row.step_id = q.step_id /\ row.action = q.op
               /\ \A s \in steps' :
                     s.id = q.step_id => s.status = StatusOfAction(q.op)
               /\ \A i \in instances' :
                     (i.id = q.id /\ q.instance_status # NULL) =>
                         i.status = q.instance_status
       ]_vars

\* the last step of an instance approved by one request and rejected by
\* another, both checked while it was PENDING: two rows, the reject written
\* first, the step and the instance APPROVED by the later commit
C32_Witness ==
    /\ inflight = {}
    /\ \E s \in steps, i \in instances :
          /\ i.id = s.instance_id
          /\ {r.action : r \in RowsOf(actionLog, s)} = {"approve", "reject"}
          /\ LastRowOf(actionLog, s).action = "approve"
          /\ s.status = "approved"
          /\ i.status = "approved"

-----------------------------------------------------------------------------
(* Requests of several workers against one database: notification runs *)

\* run_notifications up to db.commit: the run_id is drawn, the rows of the
\* key are looked for, the recipients are read and their rows added to the
\* session
RunNotificationsBegin(t, phase, y, m) ==
    /\ LET run_id == nextId.run + 1
           existing == ExistingLogs(t, phase, y, m)
       IN IF existing # {}
          THEN /\ \E l \in existing :
                     last' = Result("run_notifications", "already_run", l.run_id)
               /\ UNCHANGED <<inflight, nextId>>
          ELSE /\ inflight' = inflight \cup
                     {[op |-> "run_notifications", tenant_id |-> t,
                       id |-> run_id, phase |-> phase, year |-> y,
                       month |-> m,
                       recipients |->
                           {u.id : u \in GetRecipientsForPhase(t, phase)}]}
               /\ nextId' = [nextId EXCEPT !.run = run_id]
               /\ UNCHANGED last
    /\ UNCHANGED <<periods, actuals, instances, steps, actionLog, demands,
                   supplies, snapshots, snapLines, notifLogs, activeUsers,
                   runAudit, org, holidays>>

\* db.commit of run_notifications and the audit row that follows it: the
\* index ix_notification_run is not unique, the INSERTs are never refused
RunNotificationsCommit(q) ==
    /\ q \in inflight /\ q.op = "run_notifications"
    /\ inflight' = inflight \ {q}
    /\ notifLogs' = notifLogs \cup
           {[tenant_id |-> q.tenant_id, phase |-> q.phase, year |-> q.year,
             month |-> q.month, recipient_user_id |-> u, status |-> "sent",
             run_id |-> q.id] : u \in q.recipients}
    /\ runAudit' = runAudit \cup
           {[tenant_id |-> q.tenant_id, entity_id |-> q.id, phase |-> q.phase,
             year |-> q.year, month |-> q.month,
             recipients_count |-> Cardinality(q.recipients)]}
    /\ last' = Result("run_notifications", "success", q.id)
    /\ UNCHANGED <<periods, actuals, instances, steps, actionLog, demands,
                   supplies, snapshots, snapLines, activeUsers, org, holidays,
                   nextId>>

NextRunRace ==
    \/ \E t \in MainTenants, phase \in Phases, y \in Years, m \in MainMonths :
          /\ ExistingLogs(t, phase, y, m) = {} =>
                /\ Cardinality(inflight) < MaxInflight
                /\ nextId.run < MaxRuns
          /\ RunNotificationsBegin(t, phase, y, m)
    \/ \E q \in inflight : RunNotificationsCommit(q)

SpecRunRace == InitNotif /\ [][NextRunRace]_vars

\* C33: when runs for one tenant, phase, year and month interleave, the
\* NotificationLog rows of the key carry one run_id and every recipient has
\* at most one row.
C33_SingleRunPerKey ==
    \A t \in MainTenants, phase \in Phases, y \in Years, m \in MainMonths :
        /\ Cardinality({l.run_id : l \in ExistingLogs(t, phase, y, m)}) <= 1
        /\ \A l1, l2 \in ExistingLogs(t, phase, y, m) :
              l1.recipient_user_id = l2.recipient_user_id => l1 = l2

-----------------------------------------------------------------------------
(* Two tenants on one database *)

TenantProjects == {"p1"}
TenantFteInputs == {60}
TenantPhases == {"PM_RO"}
TenantLineIds == 1..MaxTenantLines

\* the requests of one tenant
TenantStep(t) ==
    \/ \E y \in Years, m \in MainMonths :
          /\ Room(PeriodCreateCode(t, y, m), nextId.period, MaxPeriods)
          /\ PeriodCreate(t, y, m)
    \/ \E pid \in PeriodIds, actor \in FinanceActors : PeriodLock(t, pid, actor)
    \/ \E r \in MainResources, p \in TenantProjects, y \in Years,
          m \in MainMonths, fte \in TenantFteInputs :
          /\ Room(ActualCreateCode(t, r, p, y, m, fte), LinesInserted,
                  MaxTenantLines)
          /\ ActualCreate(t, r, p, y, m, fte)
    \/ \E r \in MainResources, p \in PlanProjects, y \in Years,
          m \in MainMonths, fte \in TenantFteInputs, now \in PubClocks :
          /\ Room(DemandCreateCode(t, p, y, m, fte, r, NULL, now),
                  LinesInserted, MaxTenantLines)
          /\ DemandCreate(t, p, y, m, fte, r, NULL, now)
    \/ \E r \in MainResources, y \in Years, m \in MainMonths,
          fte \in TenantFteInputs :
          /\ Room(SupplyCreateCode(t, r, y, m, fte), LinesInserted,
                  MaxTenantLines)
          /\ SupplyCreate(t, r, y, m, fte)
    \/ \E phase \in TenantPhases, y \in Years, m \in MainMonths :
          /\ RunSucceeds(t, phase, y, m) => nextId.run < MaxRuns
          /\ RunNotifications(t, phase, y, m)

NextTenants == \E t \in PeriodTenants : TenantStep(t)

SpecTenants == InitActuals /\ [][NextTenants]_vars

\* the rows of a tenant
RowsOfTenant(t) ==
    [periods |-> {x \in periods : x.tenant_id = t},
     actuals |-> {x \in actuals : x.tenant_id = t},
     demands |-> {x \in demands : x.tenant_id = t},
     supplies |-> {x \in supplies : x.tenant_id = t},
     notifLogs |-> {x \in notifLogs : x.tenant_id = t},
     runAudit |-> {x \in runAudit : x.tenant_id = t}]

\* what the requests of a tenant would be answered now
OutcomesOfTenant(t) ==
    [period_create |-> [ym \in Years \X MainMonths |->
                           PeriodCreateCode(t, ym[1], ym[2])],
     period_lock |-> [pid \in PeriodIds |-> PeriodLockCode(t, pid)],
     actual_create |->
        [x \in TenantProjects \X Years \X MainMonths |->
            <<ActualCreateCode(t, "r1", x[1], x[2], x[3], 60),
              NewTotal(t, "r1", x[2], x[3], 60, NoLine)>>],
     actual_update |-> [aid \in TenantLineIds |-> ActualUpdateCode(t, aid, 60)],
     actual_delete |-> [aid \in TenantLineIds |-> ActualDeleteCode(t, aid)],
     demand_create |->
        [x \in Years \X MainMonths \X PubClocks |->
            DemandCreateCode(t, "p1", x[1], x[2], 60, "r1", NULL, x[3])],
     demand_update |-> [did \in TenantLineIds |-> DemandUpdateCode(t, did, 60)],
     supply_create |->
        [x \in Years \X MainMonths |->
            SupplyCreateCode(t, "r1", x[1], x[2], 60)],
     supply_update |-> [sid \in TenantLineIds |-> SupplyUpdateCode(t, sid, 60)],
     run_notifications |->
        [x \in TenantPhases \X Years \X MainMonths |->
            {l.run_id : l \in ExistingLogs(t, x[1], x[2], x[3])}]]

\* C39: a request of one tenant - a period create or lock, a create of an
\* actual, demand or supply line, a notification run - changes no row of
\* another tenant and no answer the other tenant's requests would get: its
\* locked period, its lines under the cap and the duplicate checks and its
\* notification rows count for itself alone.
C39_TenantsApart ==
    [][\A a, b \in PeriodTenants :
          (a # b /\ TenantStep(a)) =>
              /\ RowsOfTenant(b)' = RowsOfTenant(b)
              /\ OutcomesOfTenant(b)' = OutcomesOfTenant(b)
      ]_vars

\* tenant t1 holds a line of 60% in its LOCKED period; tenant t2 has just
\* created a line of 60% for the same resource, project, year and month
C39_Witness ==
    /\ last = Result("actual_create", Ok, 0)
    /\ \E qa, qb \in periods, la, lb \in actuals :
          /\ qa.tenant_id = "t1" /\ qb.tenant_id = "t2"
          /\ qa.year = qb.year /\ qa.month = qb.month
          /\ qa.status = "locked" /\ qb.status = "open"
          /\ la.tenant_id = "t1" /\ lb.tenant_id = "t2"
          /\ la.period_id = qa.id /\ lb.period_id = qb.id
          /\ la.resource_id = lb.resource_id /\ la.project_id = lb.project_id
          /\ la.actual_fte_percent = 60 /\ lb.actual_fte_percent = 60
          /\ la.id < lb.id

=============================================================================
